---- MODULE Spec2Model ----
(***************************************************************************)
(* Model of src/app.py: the sample-name reconciliation engine              *)
(* (SampleNameMatcher), the manual-override overlay and the compliance     *)
(* evaluation of ChemicalAnalyzer.                                         *)
(*                                                                         *)
(* Text is modelled as a sequence of characters, one string per character. *)
(* Cyrillic characters are written as ASCII tokens:                        *)
(*   Э "cyE"  П "cyP"  К "cyK"  Ш "cySH" С "cyS"  В "cyV"  Д "cyD"         *)
(*   Н "cyN"  Т "cyT"  М "cyM"  т "cyt"  р "cyr"  у "cyu"  б "cyb"         *)
(*   а "cya"  с "cys"  е "cye"  о "cyo"  п "cyp"  в "cyv"  л "cyl"         *)
(*   н "cyn"  № "No"                                                       *)
(* Latin letters, digits and punctuation stand for themselves.             *)
(***************************************************************************)
EXTENDS Integers, Sequences, FiniteSets, TLC

\* Python's None where the other values are atoms (a surface type, a grade, a
\* stage, a status).
None == "None"

\* Python's None where the other values are texts: a tube number is a
\* non-empty digit string and a canonical name a non-empty text, so the empty
\* text stands for None (both are false in a Python condition).
NoText == <<>>

(***************************************************************************)
(* Character classes of Python's re module (str patterns).                 *)
(***************************************************************************)
DigitChars == {"0", "1", "2", "3", "4", "5", "6", "7", "8", "9"}

\* \s
SpaceChars == {" "}

\* the characters of the model's alphabet that are not \w
NonWordChars == {" ", ".", "(", ")", "-", ",", "No"}

IsDigit(c) == c \in DigitChars

IsSpace(c) == c \in SpaceChars

\* \w
IsWord(c) == c \notin NonWordChars

\* int(x) of one digit character
DigitVal(c) ==
  CASE c = "0" -> 0 [] c = "1" -> 1 [] c = "2" -> 2 [] c = "3" -> 3
    [] c = "4" -> 4 [] c = "5" -> 5 [] c = "6" -> 6 [] c = "7" -> 7
    [] c = "8" -> 8 [] c = "9" -> 9

\* int(x) of a digit string
RECURSIVE IntOf(_)
IntOf(d) ==
  IF d = <<>> THEN 0
  ELSE 10 * IntOf(SubSeq(d, 1, Len(d) - 1)) + DigitVal(d[Len(d)])

(***************************************************************************)
(* String helpers: slicing, str.replace, the "in" substring test.          *)
(***************************************************************************)
\* s[i:] of Python, with 1-based i
Tail_(s, i) == SubSeq(s, i, Len(s))

\* text.startswith(p, i-1)
HasPrefixAt(s, i, p) ==
  /\ i >= 1
  /\ i + Len(p) - 1 <= Len(s)
  /\ SubSeq(s, i, i + Len(p) - 1) = p

\* p in s
Contains(s, p) == \E i \in 1..(Len(s) + 1) : HasPrefixAt(s, i, p)

\* text.replace(old, new): left to right, non-overlapping (old is not empty)
RECURSIVE Replace(_, _, _)
Replace(s, old, new) ==
  IF s = <<>> THEN <<>>
  ELSE IF HasPrefixAt(s, 1, old)
       THEN new \o Replace(Tail_(s, Len(old) + 1), old, new)
       ELSE <<s[1]>> \o Replace(Tail_(s, 2), old, new)

\* the maximal run of digits that starts at position i (empty if none)
RECURSIVE DigitRun(_, _)
DigitRun(s, i) ==
  IF i <= Len(s) /\ IsDigit(s[i]) THEN <<s[i]>> \o DigitRun(s, i + 1) ELSE <<>>

\* the position after a greedy \s* that starts at position i
RECURSIVE SkipSpaces(_, _)
SkipSpaces(s, i) ==
  IF i <= Len(s) /\ IsSpace(s[i]) THEN SkipSpaces(s, i + 1) ELSE i

\* the elements of a sequence
Range(seq) == {seq[i] : i \in 1..Len(seq)}

\* the smallest element of a non-empty set of integers
MinOf(S) == CHOOSE x \in S : \A y \in S : x <= y

\* the largest element of a non-empty set of integers
MaxOf(S) == CHOOSE x \in S : \A y \in S : x >= y

(***************************************************************************)
(* The regular expressions of SampleNameMatcher, each as the search the    *)
(* re module performs: leftmost match, greedy quantifiers.                 *)
(***************************************************************************)
\* start positions of the maximal digit runs of s
RunStarts(s) ==
  {i \in 1..Len(s) : IsDigit(s[i]) /\ (i = 1 \/ ~IsDigit(s[i - 1]))}

\* start positions of the matches of \((\d+)\): the digits' positions
ParenDigitStarts(s) ==
  {i \in RunStarts(s) :
     /\ i > 1
     /\ s[i - 1] = "("
     /\ i + Len(DigitRun(s, i)) <= Len(s)
     /\ s[i + Len(DigitRun(s, i))] = ")"}

\* start positions of the digits of the matches of \s+(\d+)\)
SpaceDigitParenStarts(s) ==
  {i \in RunStarts(s) :
     /\ i > 1
     /\ IsSpace(s[i - 1])
     /\ i + Len(DigitRun(s, i)) <= Len(s)
     /\ s[i + Len(DigitRun(s, i))] = ")"}

\* start positions of the matches of \b(\d+)\b
BareIntStarts(s) ==
  {i \in RunStarts(s) :
     /\ (i = 1 \/ ~IsWord(s[i - 1]))
     /\ (i + Len(DigitRun(s, i)) > Len(s) \/ ~IsWord(s[i + Len(DigitRun(s, i))]))}

\* re.search(lit \s* №? \s* (\d+)) when withNo, re.search(lit \s* (\d+))
\* otherwise: the position of group 1 in the leftmost match, 0 without a match
DigitsAfter(s, i, withNo) ==
  LET j == SkipSpaces(s, i)
      k == IF withNo /\ j <= Len(s) /\ s[j] = "No" THEN SkipSpaces(s, j + 1) ELSE j
  IN IF k <= Len(s) /\ IsDigit(s[k]) THEN k ELSE 0

SearchPrefixed(s, lit, withNo) ==
  LET hits == {i \in 1..Len(s) :
                 HasPrefixAt(s, i, lit) /\ DigitsAfter(s, i + Len(lit), withNo) # 0}
  IN IF hits = {} THEN 0 ELSE DigitsAfter(s, MinOf(hits) + Len(lit), withNo)

(***************************************************************************)
(* SampleNameMatcher.extract_tube_number_from_correct                      *)
(***************************************************************************)
extract_tube_number_from_correct(correct_name) ==
  IF ParenDigitStarts(correct_name) # {}
  THEN DigitRun(correct_name, MinOf(ParenDigitStarts(correct_name)))
  ELSE IF SpaceDigitParenStarts(correct_name) # {}
  THEN DigitRun(correct_name, MinOf(SpaceDigitParenStarts(correct_name)))
  ELSE IF BareIntStarts(correct_name) # {}
  THEN DigitRun(correct_name, MaxOf(BareIntStarts(correct_name)))
  ELSE NoText

(***************************************************************************)
(* SampleNameMatcher.extract_tube_number_from_protocol                     *)
(***************************************************************************)
\* the patterns list: literal prefix, whether an optional № may follow
TubePatterns ==
  << [lit |-> <<"cyt", "cyr", ".">>, withNo |-> TRUE],
     [lit |-> <<"cyt", "cyr">>, withNo |-> FALSE],
     [lit |-> <<"cyt", "cyr", "cyu", "cyb", "cya">>, withNo |-> FALSE],
     [lit |-> <<"cyt", "cyr", ".">>, withNo |-> FALSE] >>

\* max(numbers, key=int): the first of the runs of greatest value
MaxBareInt(s) ==
  LET best == MaxOf({IntOf(DigitRun(s, i)) : i \in BareIntStarts(s)})
  IN DigitRun(s, MinOf({i \in BareIntStarts(s) : IntOf(DigitRun(s, i)) = best}))

\* a variant that looks for the greatest bare integer first
ExtractMaxIntFirst(sample_name) ==
  IF BareIntStarts(sample_name) # {} THEN MaxBareInt(sample_name)
  ELSE IF ParenDigitStarts(sample_name) # {}
  THEN DigitRun(sample_name, MinOf(ParenDigitStarts(sample_name)))
  ELSE NoText

extract_tube_number_from_protocol(sample_name) ==
  LET hit == {n \in 1..Len(TubePatterns) :
                SearchPrefixed(sample_name, TubePatterns[n].lit, TubePatterns[n].withNo) # 0}
  IN IF hit # {}
     THEN DigitRun(sample_name,
                   SearchPrefixed(sample_name, TubePatterns[MinOf(hit)].lit,
                                  TubePatterns[MinOf(hit)].withNo))
     ELSE IF ParenDigitStarts(sample_name) # {}
     THEN DigitRun(sample_name, MinOf(ParenDigitStarts(sample_name)))
     ELSE IF BareIntStarts(sample_name) # {}
     THEN MaxBareInt(sample_name)
     ELSE NoText

(***************************************************************************)
(* SampleNameMatcher.__init__: the surface types with their aliases, in    *)
(* the order of the dict.  The types are the atoms                         *)
(*   "EPK" ЭПК, "SHPP" ШПП, "PS_KSH" ПС КШ, "KPP_VD" КПП ВД,               *)
(*   "KPP_ND_1" КПП НД-1, "KPP_ND_2" КПП НД-2.                             *)
(***************************************************************************)
txtKPP_ND == <<"cyK", "cyP", "cyP", " ", "cyN", "cyD", "-">>

txtND == <<"cyN", "cyD", "-">>

txtTruba == <<"cyt", "cyr", "cyu", "cyb", "cya">>

txtPTKM == <<"cyP", "cyT", "cyK", "cyM">>

surface_types ==
  << [type |-> "EPK", patterns |-> << <<"cyE", "cyP", "cyK">> >>],
     [type |-> "SHPP", patterns |-> << <<"cySH", "cyP", "cyP">> >>],
     [type |-> "PS_KSH",
      patterns |-> << <<"cyP", "cyS", " ", "cyK", "cySH">>,
                      <<"cyP", "cyT", " ", "cyK", "cySH">>,
                      txtTruba \o <<"_">> \o txtPTKM,
                      txtTruba \o <<" ">> \o txtPTKM,
                      txtPTKM,
                      txtTruba >>],
     [type |-> "KPP_VD",
      patterns |-> << <<"cyK", "cyP", "cyP", " ", "cyV", "cyD">>, <<"cyV", "cyD">> >>],
     [type |-> "KPP_ND_1",
      patterns |-> << txtKPP_ND \o <<"1">>, txtKPP_ND \o <<"I">>,
                      txtND \o <<"1">>, txtND \o <<"I">> >>],
     [type |-> "KPP_ND_2",
      patterns |-> << txtKPP_ND \o <<"2">>, txtKPP_ND \o <<"I", "I">>,
                      txtND \o <<"2">>, txtND \o <<"I", "I">>,
                      txtKPP_ND \o <<"I", "I", "cys", "cyt">>,
                      txtND \o <<"I", "I", "cys", "cyt">> >>] >>

(***************************************************************************)
(* SampleNameMatcher.normalize_roman_numerals: the replacements, applied   *)
(* one after the other in the order of the list.                           *)
(***************************************************************************)
replacements ==
  << << <<" ">> \o txtND \o <<"I">>, <<" ">> \o txtND \o <<"1">> >>,
     << <<" ">> \o txtND \o <<"I", "I">>, <<" ">> \o txtND \o <<"2">> >>,
     << <<" ">> \o txtND \o <<"I", " ">>, <<" ">> \o txtND \o <<"1", " ">> >>,
     << <<" ">> \o txtND \o <<"I", "I", " ">>, <<" ">> \o txtND \o <<"2", " ">> >>,
     << txtKPP_ND \o <<"I">>, txtKPP_ND \o <<"1">> >>,
     << txtKPP_ND \o <<"I", "I">>, txtKPP_ND \o <<"2">> >>,
     << txtND \o <<"I">>, txtND \o <<"1">> >>,
     << txtND \o <<"I", "I">>, txtND \o <<"2">> >>,
     << <<"I">>, <<"1">> >>,
     << <<"I", "I">>, <<"2">> >>,
     << <<"I", "I", "cys", "cyt">>, <<"I", "I">> >>,
     << <<"I", "cys", "cyt">>, <<"I">> >>,
     << <<"-", "I", "I", "cys", "cyt">>, <<"-", "I", "I">> >>,
     << <<"-", "I", "cys", "cyt">>, <<"-", "I">> >> >>

RECURSIVE ApplyReplacements(_, _)
ApplyReplacements(text, n) ==
  IF n = 0 THEN text
  ELSE Replace(ApplyReplacements(text, n - 1), replacements[n][1], replacements[n][2])

normalize_roman_numerals(text) == ApplyReplacements(text, Len(replacements))

(***************************************************************************)
(* SampleNameMatcher.similar: difflib's SequenceMatcher(None, a, b).ratio()*)
(* (no junk; the texts are far below the autojunk length): the matching    *)
(* blocks are the longest common block, the earliest in a and then in b,   *)
(* and recursively those to its left and to its right.                     *)
(***************************************************************************)
\* the length of the common block of a and b that starts at a[i], b[j] and
\* stays below ahi, bhi
RECURSIVE CommonLen(_, _, _, _, _, _)
CommonLen(a, b, i, j, ahi, bhi) ==
  IF i <= ahi /\ j <= bhi /\ a[i] = b[j]
  THEN 1 + CommonLen(a, b, i + 1, j + 1, ahi, bhi)
  ELSE 0

\* find_longest_match(alo, ahi, blo, bhi) as <<i, j, k>>
LongestMatch(a, b, alo, ahi, blo, bhi) ==
  LET cand == {<<i, j, CommonLen(a, b, i, j, ahi, bhi)>> :
                 i \in alo..ahi, j \in blo..bhi}
  IN IF cand = {} THEN <<alo, blo, 0>>
     ELSE CHOOSE p \in cand :
            \A q \in cand :
              \/ p[3] > q[3]
              \/ p[3] = q[3] /\ p[1] < q[1]
              \/ p[3] = q[3] /\ p[1] = q[1] /\ p[2] <= q[2]

\* the sum of the sizes of get_matching_blocks() within a[alo..ahi], b[blo..bhi]
RECURSIVE MatchedChars(_, _, _, _, _, _)
MatchedChars(a, b, alo, ahi, blo, bhi) ==
  LET m == LongestMatch(a, b, alo, ahi, blo, bhi)
  IN IF m[3] = 0 THEN 0
     ELSE m[3] + MatchedChars(a, b, alo, m[1] - 1, blo, m[2] - 1)
               + MatchedChars(a, b, m[1] + m[3], ahi, m[2] + m[3], bhi)

\* similar(a, b) > 0.7, the only use made of the ratio 2.0 * M / (|a| + |b|)
\* (the ratio of two empty texts is 1.0)
SimilarAbove07(a, b) ==
  IF Len(a) + Len(b) = 0 THEN TRUE
  ELSE 20 * MatchedChars(a, b, 1, Len(a), 1, Len(b)) > 7 * (Len(a) + Len(b))

(***************************************************************************)
(* SampleNameMatcher.extract_surface_type                                  *)
(***************************************************************************)
\* the <<type index, pattern index>> pairs in the order of the two loops
PatternIndex ==
  UNION {{<<t, q>> : q \in 1..Len(surface_types[t].patterns)} :
           t \in 1..Len(surface_types)}

PatternBefore(x, y) == x[1] < y[1] \/ (x[1] = y[1] /\ x[2] <= y[2])

FirstPattern(S) == CHOOSE x \in S : \A y \in S : PatternBefore(x, y)

extract_surface_type(name) ==
  LET normalized_name == normalize_roman_numerals(name)
      pat(x) == normalize_roman_numerals(surface_types[x[1]].patterns[x[2]])
      exact == {x \in PatternIndex : Contains(normalized_name, pat(x))}
      close == {x \in PatternIndex : SimilarAbove07(pat(x), normalized_name)}
  IN IF exact # {} THEN surface_types[FirstPattern(exact)[1]].type
     ELSE IF close # {} THEN surface_types[FirstPattern(close)[1]].type
     ELSE None

(***************************************************************************)
(* SampleNameMatcher.parse_protocol_sample_name: the derived identity of a *)
(* protocol label (the line letter is derived too; nothing reads it).      *)
(***************************************************************************)
parse_protocol_sample_name(sample_name) ==
  [original |-> sample_name,
   surface_type |-> extract_surface_type(sample_name),
   tube_number |-> extract_tube_number_from_protocol(sample_name)]

(***************************************************************************)
(* The texts of the model: the labels of the protocol samples and the      *)
(* names of the reference list, with their derived identities tabulated    *)
(* (each derivation is computed once per text).                            *)
(***************************************************************************)
\* protocol labels: "тр.1 ЭПК", "тр.2", "тр.1", "ЭПК"
lblTr1EPK == <<"cyt", "cyr", ".", "1", " ", "cyE", "cyP", "cyK">>

lblTr2 == <<"cyt", "cyr", ".", "2">>

lblTr1 == <<"cyt", "cyr", ".", "1">>

lblEPK == <<"cyE", "cyP", "cyK">>

ProtocolLabels == {lblTr1EPK, lblTr2, lblTr1, lblEPK}

\* canonical names: "Pipe A", "Pipe B", "ЭПК (1)", "ШПП (1)", "Pipe B (2)"
namePipeA == <<"P", "i", "p", "e", " ", "A">>

namePipeB == <<"P", "i", "p", "e", " ", "B">>

nameEPK1 == <<"cyE", "cyP", "cyK", " ", "(", "1", ")">>

nameSHPP1 == <<"cySH", "cyP", "cyP", " ", "(", "1", ")">>

namePipeB2 == <<"P", "i", "p", "e", " ", "B", " ", "(", "2", ")">>

CanonicalNames == {namePipeA, namePipeB, nameEPK1, nameSHPP1, namePipeB2}

\* parse_protocol_sample_name(sample_name) for the labels of the model
ProtocolInfoTable == [l \in ProtocolLabels |-> parse_protocol_sample_name(l)]

ProtocolInfo(sample_name) == ProtocolInfoTable[sample_name]

\* the attributes parse_correct_names derives from a name of the model
CorrectInfoTable ==
  [n \in CanonicalNames |->
     [surface_type |-> extract_surface_type(n),
      tube_number |-> extract_tube_number_from_correct(n)]]

CorrectInfo(name) == CorrectInfoTable[name]

(***************************************************************************)
(* SampleNameMatcher.match_samples and its two stages.  A protocol sample  *)
(* is named by its position in the list handed to match_samples (its       *)
(* identity as an object), a canonical entry by its position in            *)
(* correct_samples; a pair of the result is <<sample, entry, stage>>.      *)
(***************************************************************************)
\* "совпадение по трубе и типу"
StageTubeAndType == "tube+type"

\* "совпадение по трубе"
StageTubeOnly == "tube-only"

\* a variant of the stage-1 condition that does not compare surface types
TubeAndTypeMatchAnyType(protocol_info, correct, used_correct) ==
  /\ correct.original \notin used_correct
  /\ protocol_info.tube_number # NoText
  /\ correct.tube_number # NoText
  /\ protocol_info.tube_number = correct.tube_number

\* the condition of the inner loop of _match_by_tube_and_type
TubeAndTypeMatch(protocol_info, correct, used_correct) ==
  /\ correct.original \notin used_correct
  /\ protocol_info.tube_number # NoText
  /\ correct.tube_number # NoText
  /\ protocol_info.tube_number = correct.tube_number
  /\ protocol_info.surface_type # None
  /\ correct.surface_type # None
  /\ protocol_info.surface_type = correct.surface_type

\* the condition of the inner loop of _match_by_tube_only
TubeOnlyMatch(protocol_info, correct, used_correct) ==
  /\ correct.original \notin used_correct
  /\ protocol_info.tube_number # NoText
  /\ correct.tube_number # NoText
  /\ protocol_info.tube_number = correct.tube_number

\* a variant of the bookkeeping that never records an entry as used
MarkUsedNothing(used_correct, correct) == used_correct

\* used_correct.add(correct['original'])
MarkUsed(used_correct, correct) == used_correct \cup {correct.original}

\* the entries the inner loop of _match_by_tube_and_type would accept
EligibleTubeAndType(protocol_info, correct_samples, used_correct) ==
  {c \in 1..Len(correct_samples) :
     TubeAndTypeMatch(protocol_info, correct_samples[c], used_correct)}

\* the entries the inner loop of _match_by_tube_only would accept
EligibleTubeOnly(protocol_info, correct_samples, used_correct) ==
  {c \in 1..Len(correct_samples) :
     TubeOnlyMatch(protocol_info, correct_samples[c], used_correct)}

\* the inner loop stops at the first entry it accepts (break): one append
\* to matches and one name added to used_correct, or nothing
TakeFirst(acc, protocol, eligible, correct_samples, stage) ==
  IF eligible = {} THEN acc
  ELSE [matches |-> Append(acc.matches, <<protocol, MinOf(eligible), stage>>),
        used |-> MarkUsed(acc.used, correct_samples[MinOf(eligible)])]

\* the outer loop of _match_by_tube_and_type from the k-th sample of
\* protocol_samples on; acc holds matches and used_correct
RECURSIVE TubeAndTypeLoop(_, _, _, _, _)
TubeAndTypeLoop(records, protocol_samples, correct_samples, k, acc) ==
  IF k > Len(protocol_samples) THEN acc
  ELSE TubeAndTypeLoop(records, protocol_samples, correct_samples, k + 1,
         TakeFirst(acc, protocol_samples[k],
                   EligibleTubeAndType(ProtocolInfo(records[protocol_samples[k]].name),
                                       correct_samples, acc.used),
                   correct_samples, StageTubeAndType))

_match_by_tube_and_type(records, protocol_samples, correct_samples, used_correct) ==
  TubeAndTypeLoop(records, protocol_samples, correct_samples, 1,
                  [matches |-> <<>>, used |-> used_correct])

\* the outer loop of _match_by_tube_only
RECURSIVE TubeOnlyLoop(_, _, _, _, _)
TubeOnlyLoop(records, protocol_samples, correct_samples, k, acc) ==
  IF k > Len(protocol_samples) THEN acc
  ELSE TubeOnlyLoop(records, protocol_samples, correct_samples, k + 1,
         TakeFirst(acc, protocol_samples[k],
                   EligibleTubeOnly(ProtocolInfo(records[protocol_samples[k]].name),
                                    correct_samples, acc.used),
                   correct_samples, StageTubeOnly))

_match_by_tube_only(records, protocol_samples, correct_samples, used_correct) ==
  TubeOnlyLoop(records, protocol_samples, correct_samples, 1,
               [matches |-> <<>>, used |-> used_correct])

\* s not in [m[0] for m in matches]: "in" compares the dicts by content
NotInMatches(records, s, matches) ==
  \A m \in 1..Len(matches) : records[matches[m][1]] # records[s]

\* [s for s in unmatched_protocol if s not in [m[0] for m in matches]]
RECURSIVE StillUnmatched(_, _, _)
StillUnmatched(records, unmatched_protocol, matches) ==
  IF unmatched_protocol = <<>> THEN <<>>
  ELSE (IF NotInMatches(records, Head(unmatched_protocol), matches)
        THEN <<Head(unmatched_protocol)>> ELSE <<>>)
       \o StillUnmatched(records, Tail(unmatched_protocol), matches)

\* the samples in the order of the list: unmatched_protocol = protocol_samples.copy()
Positions(records) == [i \in 1..Len(records) |-> i]

\* what match_samples returns (matched_samples, unmatched_protocol), with
\* the values of its locals after each stage
MatchOutcome(records, stage1, unmatched1, stage2) ==
  [matched_samples |-> stage1.matches \o stage2.matches,
   unmatched_protocol |-> StillUnmatched(records, unmatched1, stage2.matches),
   matches_stage1 |-> stage1.matches,
   offered_stage2 |-> unmatched1,
   used_correct |-> stage2.used]

\* stage 2, on the samples stage 1 left
MatchStage2(records, correct_samples, stage1, unmatched1) ==
  MatchOutcome(records, stage1, unmatched1,
               _match_by_tube_only(records, unmatched1, correct_samples, stage1.used))

\* the filter after stage 1
MatchAfterStage1(records, correct_samples, stage1) ==
  MatchStage2(records, correct_samples, stage1,
              StillUnmatched(records, Positions(records), stage1.matches))

match_samples(records, correct_samples) ==
  MatchAfterStage1(records, correct_samples,
                   _match_by_tube_and_type(records, Positions(records), correct_samples, {}))

\* match_samples found nothing to do
NoMatch ==
  [matched_samples |-> <<>>, unmatched_protocol |-> <<>>, matches_stage1 |-> <<>>,
   offered_stage2 |-> <<>>, used_correct |-> {}]

(***************************************************************************)
(* The records.  A sample is the dict parse_protocol_file builds; the keys *)
(* added later (correct_number, automatically_matched, match_stage,        *)
(* manually_matched) are listed in "keys" once the dict holds them, and    *)
(* read as None / False before (dict.get).  A sequence number is a         *)
(* non-negative integer (str.isdigit), NoNumber stands for None.           *)
(***************************************************************************)
NoNumber == -1

\* current_sample = {"name": ..., "steel_grade": ..., "composition": ..., "original_name": ...}
ParsedSample(sample_name, grade, composition) ==
  [name |-> sample_name,
   steel_grade |-> grade,
   composition |-> composition,
   original_name |-> sample_name,
   correct_number |-> NoNumber,
   automatically_matched |-> FALSE,
   match_stage |-> None,
   manually_matched |-> FALSE,
   keys |-> {}]

\* the decimal digits of a sequence number
RECURSIVE DigitsOf(_)
DigitsOf(n) ==
  IF n < 10 THEN <<CHOOSE d \in DigitChars : DigitVal(d) = n>>
  ELSE Append(DigitsOf(n \div 10), CHOOSE d \in DigitChars : DigitVal(d) = n % 10)

\* a variant of the entry that takes the tube number from the sequence
\* number of the row instead of deriving it from the name
CorrectEntryTubeFromNumber(row) ==
  [number |-> row.number,
   original |-> row.name,
   surface_type |-> CorrectInfo(row.name).surface_type,
   tube_number |-> DigitsOf(row.number)]

(***************************************************************************)
(* SampleNameMatcher.parse_correct_names over the rows of the reference    *)
(* document that have the shape <integer, name>: one entry per row, then a *)
(* stable sort by number.                                                  *)
(***************************************************************************)
CorrectEntry(row) ==
  [number |-> row.number,
   original |-> row.name,
   surface_type |-> CorrectInfo(row.name).surface_type,
   tube_number |-> CorrectInfo(row.name).tube_number]

\* list.sort(key=lambda x: x['number']): stable
RECURSIVE InsertByNumber(_, _)
InsertByNumber(sorted, e) ==
  IF sorted = <<>> THEN <<e>>
  ELSE IF Head(sorted).number <= e.number
       THEN <<Head(sorted)>> \o InsertByNumber(Tail(sorted), e)
       ELSE <<e>> \o sorted

RECURSIVE SortByNumber(_)
SortByNumber(entries) ==
  IF entries = <<>> THEN <<>>
  ELSE InsertByNumber(SortByNumber(SubSeq(entries, 1, Len(entries) - 1)),
                      entries[Len(entries)])

parse_correct_names(file_content) ==
  SortByNumber([i \in 1..Len(file_content.rows) |-> CorrectEntry(file_content.rows[i])])

(***************************************************************************)
(* ChemicalAnalyzer.load_standards: the built-in normative specs, in the   *)
(* order of the dict.  The grades are the atoms "12H1MF" 12Х1МФ,           *)
(* "12H18N12T" 12Х18Н12Т, "20", "Di82" Ди82, "Di59" Ди59.  A weight        *)
(* percent is an integer number of thousandths (0.17 is 170); a bound is   *)
(* <<v>>, or <<>> for None.  Each spec also has the key "source".          *)
(***************************************************************************)
BuiltinStandards ==
  << [grade |-> "12H1MF",
   source |-> "TU 14-3R-55-2001",
   elements |->
    << <<"C", <<100>>, <<150>>>>, <<"Si", <<170>>, <<370>>>>,
       <<"Mn", <<400>>, <<700>>>>, <<"Cr", <<900>>, <<1200>>>>,
       <<"Mo", <<250>>, <<350>>>>, <<"V", <<150>>, <<300>>>>,
       <<"Ni", <<>>, <<250>>>>, <<"Cu", <<>>, <<200>>>>,
       <<"S", <<>>, <<25>>>>, <<"P", <<>>, <<25>>>> >>],
  [grade |-> "12H18N12T",
   source |-> "TU 14-3R-55-2001",
   elements |->
    << <<"C", <<>>, <<120>>>>, <<"Si", <<>>, <<800>>>>,
       <<"Mn", <<1000>>, <<2000>>>>, <<"Cr", <<17000>>, <<19000>>>>,
       <<"Ni", <<11000>>, <<13000>>>>, <<"Ti", <<>>, <<700>>>>,
       <<"Cu", <<>>, <<300>>>>, <<"S", <<>>, <<20>>>>, <<"P", <<>>, <<35>>>> >>],
  [grade |-> "20",
   source |-> "TU 14-3R-55-2001",
   elements |->
    << <<"C", <<170>>, <<240>>>>, <<"Si", <<170>>, <<370>>>>,
       <<"Mn", <<350>>, <<650>>>>, <<"Cr", <<>>, <<250>>>>,
       <<"Ni", <<>>, <<250>>>>, <<"Cu", <<>>, <<300>>>>,
       <<"P", <<>>, <<30>>>>, <<"S", <<>>, <<25>>>> >>],
  [grade |-> "Di82",
   source |-> "TU 14-3R-55-2001",
   elements |->
    << <<"C", <<80>>, <<120>>>>, <<"Si", <<>>, <<500>>>>,
       <<"Mn", <<300>>, <<600>>>>, <<"Cr", <<8600>>, <<10000>>>>,
       <<"Ni", <<>>, <<700>>>>, <<"Mo", <<600>>, <<800>>>>,
       <<"V", <<100>>, <<200>>>>, <<"Nb", <<100>>, <<200>>>>,
       <<"Cu", <<>>, <<300>>>>, <<"S", <<>>, <<15>>>>, <<"P", <<>>, <<30>>>> >>],
  [grade |-> "Di59",
   source |-> "TU 14-3R-55-2001",
   elements |->
    << <<"C", <<60>>, <<100>>>>, <<"Si", <<1800>>, <<2200>>>>,
       <<"Mn", <<12000>>, <<13500>>>>, <<"Cr", <<11500>>, <<13000>>>>,
       <<"Ni", <<1800>>, <<2500>>>>, <<"Nb", <<600>>, <<1000>>>>,
       <<"Cu", <<2000>>, <<2500>>>>, <<"S", <<>>, <<20>>>>,
       <<"P", <<>>, <<30>>>> >>] >>

\* the keys of a spec: standard.keys()
StandardKeys(standard) ==
  [i \in 1..Len(standard.elements) |-> standard.elements[i][1]] \o <<"source">>

\* element in standard
InStandard(standard, element) ==
  \E i \in 1..Len(StandardKeys(standard)) : StandardKeys(standard)[i] = element

\* standard[element], for an element of the spec other than "source"
BoundsOf(standard, element) ==
  LET i == CHOOSE j \in 1..Len(standard.elements) : standard.elements[j][1] = element
  IN <<standard.elements[i][2], standard.elements[i][3]>>

\* a variant of the check whose bounds are exclusive
CheckExclusive(element, value, standard) ==
  IF ~InStandard(standard, element) \/ element = "source" THEN "normal"
  ELSE IF BoundsOf(standard, element)[1] # <<>>
          /\ value <= BoundsOf(standard, element)[1][1] THEN "deviation"
  ELSE IF BoundsOf(standard, element)[2] # <<>>
          /\ value >= BoundsOf(standard, element)[2][1] THEN "deviation"
  ELSE "normal"

\* a variant of the check that reads an absent bound as the bound 0
CheckAbsentAsZero(element, value, standard) ==
  IF ~InStandard(standard, element) \/ element = "source" THEN "normal"
  ELSE LET lo == IF BoundsOf(standard, element)[1] = <<>> THEN 0
                 ELSE BoundsOf(standard, element)[1][1]
           hi == IF BoundsOf(standard, element)[2] = <<>> THEN 0
                 ELSE BoundsOf(standard, element)[2][1]
       IN IF value < lo \/ value > hi THEN "deviation" ELSE "normal"

(***************************************************************************)
(* ChemicalAnalyzer.check_element_compliance                               *)
(***************************************************************************)
check_element_compliance(element, value, standard) ==
  IF ~InStandard(standard, element) \/ element = "source" THEN "normal"
  ELSE LET min_val == BoundsOf(standard, element)[1]
           max_val == BoundsOf(standard, element)[2]
       IN IF min_val # <<>> /\ value < min_val[1] THEN "deviation"
          ELSE IF max_val # <<>> /\ value > max_val[1] THEN "deviation"
          ELSE "normal"

\* self.standards = {...}; self.standards.update(user_std): the overlay's
\* specs replace the built-in ones of the same grade in place, the others
\* are added at the end
RECURSIVE UpdateStandards(_, _)
UpdateStandards(base, user_std) ==
  IF user_std = <<>> THEN base
  ELSE LET u == Head(user_std)
           hit == {i \in 1..Len(base) : base[i].grade = u.grade}
       IN UpdateStandards(IF hit = {} THEN Append(base, u)
                          ELSE [base EXCEPT ![MinOf(hit)] = u],
                          Tail(user_std))

load_standards(user_std) == UpdateStandards(BuiltinStandards, user_std)

\* grade in self.standards
HasStandard(stds, grade) == \E i \in 1..Len(stds) : stds[i].grade = grade

\* self.standards[grade]
StandardOf(stds, grade) == stds[CHOOSE i \in 1..Len(stds) : stds[i].grade = grade]

(***************************************************************************)
(* ChemicalAnalyzer.create_report_tables                                   *)
(***************************************************************************)
\* sorted(grade_samples, key=lambda x: x.get('correct_number', float('inf'))):
\* stable; every sample sorted here holds a correct_number
RECURSIVE InsertByCorrectNumber(_, _)
InsertByCorrectNumber(sorted, x) ==
  IF sorted = <<>> THEN <<x>>
  ELSE IF Head(sorted).correct_number <= x.correct_number
       THEN <<Head(sorted)>> \o InsertByCorrectNumber(Tail(sorted), x)
       ELSE <<x>> \o sorted

RECURSIVE SortByCorrectNumber(_)
SortByCorrectNumber(grade_samples) ==
  IF grade_samples = <<>> THEN <<>>
  ELSE InsertByCorrectNumber(
         SortByCorrectNumber(SubSeq(grade_samples, 1, Len(grade_samples) - 1)),
         grade_samples[Len(grade_samples)])

\* the order of the element columns of a grade's table
NormElements(grade, standard) ==
  LET keys == StandardKeys(standard)
      main_elements == IF grade = "12H1MF" THEN <<"C", "Si", "Mn", "Cr", "Mo", "V", "Ni">>
                       ELSE <<"C", "Si", "Mn">>
      harmful_elements == IF grade = "12H1MF" THEN <<"Cu", "S", "P">> ELSE <<"P", "S">>
      IsOther(elem) == elem \notin Range(main_elements) \cup Range(harmful_elements)
                                   \cup {"source"}
      NotSource(elem) == elem # "source"
  IN IF grade \in {"12H1MF", "20"}
     THEN main_elements \o SelectSeq(keys, IsOther) \o harmful_elements
     ELSE SelectSeq(keys, NotSource)

\* one row of "data" with its row of "compliance": the number, the name and,
\* per element column, the status ("-" cells are normal)
ReportRow(idx, sample, norm_elements, standard) ==
  [No |-> idx,
   name |-> sample.name,
   compliance |->
     [e \in 1..Len(norm_elements) |->
        IF norm_elements[e] \in DOMAIN sample.composition
        THEN check_element_compliance(norm_elements[e],
                                      sample.composition[norm_elements[e]], standard)
        ELSE "normal"]]

\* a variant that keeps the samples of the grade in the order of the protocols
GradeTableUnsorted(grade, matched_samples, standard) ==
  LET OfGrade(x) == x.steel_grade = grade
      sorted_samples == SelectSeq(matched_samples, OfGrade)
      norm_elements == NormElements(grade, standard)
  IN [samples |-> sorted_samples,
      columns |-> norm_elements,
      data |-> [i \in 1..Len(sorted_samples) |->
                  ReportRow(i, sorted_samples[i], norm_elements, standard)]]

\* tables[grade]
GradeTable(grade, matched_samples, standard) ==
  LET OfGrade(x) == x.steel_grade = grade
      sorted_samples == SortByCorrectNumber(SelectSeq(matched_samples, OfGrade))
      norm_elements == NormElements(grade, standard)
  IN [samples |-> sorted_samples,
      columns |-> norm_elements,
      data |-> [i \in 1..Len(sorted_samples) |->
                  ReportRow(i, sorted_samples[i], norm_elements, standard)]]

\* a variant that skips every grade
GradeHasNoTable(stds, grade) == FALSE

\* the grade's samples are skipped when self.standards holds no spec for it
GradeHasTable(stds, grade) == HasStandard(stds, grade)

\* a variant that builds the tables from all the samples, with or without
\* a canonical number
CreateTablesOfAll(samples, stds) ==
  IF samples = <<>> THEN [returned |-> "None", tables |-> <<>>]
  ELSE [returned |-> "tables",
        tables |-> [grade \in {g \in {samples[i].steel_grade : i \in 1..Len(samples)}
                                       \ {None} : GradeHasTable(stds, g)} |->
                      GradeTable(grade, samples, StandardOf(stds, grade))]]

\* the result: returned is "None" or "tables"; tables maps a grade to its table
create_report_tables(samples, stds) ==
  LET Matched(x) == x.correct_number # NoNumber
      matched_samples == SelectSeq(samples, Matched)
      steel_grades == {matched_samples[i].steel_grade : i \in 1..Len(matched_samples)}
                        \ {None}
  IN IF samples = <<>> \/ matched_samples = <<>>
     THEN [returned |-> "None", tables |-> <<>>]
     ELSE [returned |-> "tables",
           tables |-> [grade \in {g \in steel_grades : GradeHasTable(stds, g)} |->
                         GradeTable(grade, matched_samples, StandardOf(stds, grade))]]

(***************************************************************************)
(* ChemicalAnalyzer.match_sample_names: the matched samples are copies     *)
(* that carry the canonical name and number, the unmatched samples are the *)
(* dicts of the caller, updated in place.                                  *)
(***************************************************************************)
\* corrected_sample = protocol_sample.copy() and the five assignments
CorrectedSample(protocol_sample, correct_sample, stage) ==
  [protocol_sample EXCEPT
     !.original_name = protocol_sample.name,
     !.name = correct_sample.original,
     !.correct_number = correct_sample.number,
     !.automatically_matched = TRUE,
     !.match_stage = stage,
     !.keys = @ \cup {"correct_number", "automatically_matched", "match_stage"}]

\* the three assignments to a sample of unmatched_protocol
UnmatchedSample(sample) ==
  [sample EXCEPT
     !.original_name = sample.name,
     !.correct_number = NoNumber,
     !.automatically_matched = FALSE,
     !.keys = @ \cup {"correct_number", "automatically_matched"}]

\* the return value when there is nothing to reconcile against
Unreconciled(samples) ==
  [all_samples |-> samples, correct_samples |-> <<>>, samples |-> samples,
   match |-> NoMatch]

\* the two loops over matched_pairs and unmatched_protocol; the result is
\* all_samples and correct_samples as returned, the caller's samples as the
\* call leaves them, and what match_samples returned
Reconciled(samples, parsed, m) ==
  [all_samples |->
     [k \in 1..Len(m.matched_samples) |->
        CorrectedSample(samples[m.matched_samples[k][1]],
                        parsed[m.matched_samples[k][2]],
                        m.matched_samples[k][3])]
     \o [k \in 1..Len(m.unmatched_protocol) |->
           UnmatchedSample(samples[m.unmatched_protocol[k]])],
   correct_samples |-> parsed,
   samples |-> [i \in 1..Len(samples) |->
                  IF i \in Range(m.unmatched_protocol)
                  THEN UnmatchedSample(samples[i]) ELSE samples[i]],
   match |-> m]

MatchAgainst(samples, parsed) ==
  IF parsed = <<>> THEN Unreconciled(samples)
  ELSE Reconciled(samples, parsed, match_samples(samples, parsed))

match_sample_names(samples, file) ==
  IF ~file.uploaded THEN Unreconciled(samples)
  ELSE MatchAgainst(samples, parse_correct_names(file))

(***************************************************************************)
(* ChemicalAnalyzer.add_manual_matching_interface.                         *)
(* st.session_state.manual_matches is a dict keyed by original_name: here  *)
(* a sequence of pairs <<original_name, correct_name>> in insertion order. *)
(* The value None (the local copy only) is NoText.                         *)
(***************************************************************************)
\* "Не сопоставлен", the first option of every selectbox
optNotMatched ==
  <<"cyN", "cye", " ", "cys", "cyo", "cyp", "cyo", "cys", "cyt", "cya", "cyv",
    "cyl", "cye", "cyn">>

\* "ручное сопоставление"
StageManual == "manual"

\* key in d
DictHas(d, key) == \E k \in 1..Len(d) : d[k][1] = key

\* d[key]
DictGet(d, key) == d[CHOOSE k \in 1..Len(d) : d[k][1] = key][2]

\* d[key] = value: a key the dict holds keeps its place, a new key goes last
DictSet(d, key, value) ==
  IF DictHas(d, key)
  THEN [k \in 1..Len(d) |-> IF d[k][1] = key THEN <<key, value>> ELSE d[k]]
  ELSE Append(d, <<key, value>>)

\* del d[key], when the dict holds the key
DictDel(d, key) ==
  LET Other(e) == e[1] # key IN SelectSeq(d, Other)

\* correct_names_list = [cs['original'] for cs in correct_samples]
correct_names_list(correct_samples) ==
  [c \in 1..Len(correct_samples) |-> correct_samples[c].original]

\* correct_dict[correct_name]['number']: of entries with one name the dict
\* comprehension keeps the last
CorrectDictNumber(correct_samples, correct_name) ==
  correct_samples[MaxOf({c \in 1..Len(correct_samples) :
                            correct_samples[c].original = correct_name})].number

\* all_options = ["Не сопоставлен"] + correct_names_list
all_options(correct_samples) ==
  {optNotMatched} \cup Range(correct_names_list(correct_samples))

\* current_matches[original_name]: the manual choice if there is one, else
\* what the last sample of that label says (its canonical name when it was
\* matched automatically, else None)
CurrentMatch(samples, correct_samples, manual_matches, original_name) ==
  IF DictHas(manual_matches, original_name) /\ DictGet(manual_matches, original_name) # NoText
  THEN DictGet(manual_matches, original_name)
  ELSE LET last == samples[MaxOf({i \in 1..Len(samples) :
                                    samples[i].original_name = original_name})]
       IN IF last.automatically_matched
             /\ last.name \in Range(correct_names_list(correct_samples))
          THEN last.name ELSE NoText

\* current_value, the option a selectbox shows when it is first drawn
CurrentValue(samples, correct_samples, manual_matches, i) ==
  LET v == CurrentMatch(samples, correct_samples, manual_matches, samples[i].original_name)
  IN IF v \in all_options(correct_samples) THEN v ELSE optNotMatched

\* what each selectbox returns in a script run: the value the session keeps
\* under the widget's key, or current_value when the widget is drawn for the
\* first time
Selected(samples, correct_samples, manual_matches, widgets) ==
  [i \in 1..Len(samples) |->
     IF i \in DOMAIN widgets THEN widgets[i]
     ELSE CurrentValue(samples, correct_samples, manual_matches, i)]

\* samples_by_grade: the samples grouped by grade, the groups in the order
\* their grades first appear
RECURSIVE GradeOrderFrom(_, _, _)
GradeOrderFrom(samples, rest, order) ==
  IF rest = {} THEN order
  ELSE LET grade == samples[MinOf(rest)].steel_grade
           group == {i \in rest : samples[i].steel_grade = grade}
           Of(i) == i \in group
       IN GradeOrderFrom(samples, rest \ group,
                         order \o SelectSeq([i \in 1..Len(samples) |-> i], Of))

GradeOrder(samples) == GradeOrderFrom(samples, 1..Len(samples), <<>>)

\* the two branches after st.selectbox: the choice is stored under the
\* sample's original_name, "Не сопоставлен" deletes the key
StoreSelection(manual_matches, original_name, selected) ==
  IF selected # optNotMatched THEN DictSet(manual_matches, original_name, selected)
  ELSE DictDel(manual_matches, original_name)

\* the loop over the grades and their samples
RECURSIVE StoreSelections(_, _, _, _)
StoreSelections(manual_matches, samples, selected, order) ==
  IF order = <<>> THEN manual_matches
  ELSE StoreSelections(
         StoreSelection(manual_matches, samples[Head(order)].original_name,
                        selected[Head(order)]),
         samples, selected, Tail(order))

\* the loop that fills used_names and conflicts: a conflict is
\* <<original_name, correct_name, used_names[correct_name]>>
RECURSIVE Conflicts(_, _, _)
Conflicts(manual_matches, used_names, conflicts) ==
  IF manual_matches = <<>> THEN conflicts
  ELSE LET original_name == Head(manual_matches)[1]
           correct_name == Head(manual_matches)[2]
       IN IF correct_name = NoText
          THEN Conflicts(Tail(manual_matches), used_names, conflicts)
          ELSE IF DictHas(used_names, correct_name)
          THEN Conflicts(Tail(manual_matches), used_names,
                         Append(conflicts, <<original_name, correct_name,
                                             DictGet(used_names, correct_name)>>))
          ELSE Conflicts(Tail(manual_matches),
                         DictSet(used_names, correct_name, original_name), conflicts)

\* a variant of the conflict loop's resolution that takes the name from the
\* sample that chose it later
ResolveKeepFirst(manual_matches, conflict) ==
  DictSet(manual_matches, conflict[1], NoText)

\* manual_matches[other_original] = None
Resolve(manual_matches, conflict) ==
  DictSet(manual_matches, conflict[3], NoText)

RECURSIVE ResolveConflicts(_, _)
ResolveConflicts(manual_matches, conflicts) ==
  IF conflicts = <<>> THEN manual_matches
  ELSE ResolveConflicts(Resolve(manual_matches, Head(conflicts)), Tail(conflicts))

\* updated_sample = sample.copy() and the branches of the update loop
UpdatedSample(sample, manual_matches, correct_samples) ==
  IF DictHas(manual_matches, sample.original_name)
  THEN LET correct_name == DictGet(manual_matches, sample.original_name)
       IN IF correct_name # NoText
             /\ correct_name \in Range(correct_names_list(correct_samples))
          THEN [sample EXCEPT
                  !.name = correct_name,
                  !.correct_number = CorrectDictNumber(correct_samples, correct_name),
                  !.manually_matched = TRUE,
                  !.automatically_matched = FALSE,
                  !.match_stage = StageManual,
                  !.keys = @ \cup {"correct_number", "manually_matched",
                                   "automatically_matched", "match_stage"}]
          ELSE [sample EXCEPT
                  !.name = sample.original_name,
                  !.correct_number = NoNumber,
                  !.manually_matched = FALSE,
                  !.automatically_matched = FALSE,
                  !.keys = @ \cup {"correct_number", "manually_matched",
                                   "automatically_matched"}]
  ELSE [sample EXCEPT !.manually_matched = FALSE,
                      !.keys = @ \cup {"manually_matched"}]

\* the block under the button "Применить ручное сопоставление": copy is
\* st.session_state.manual_matches.copy(); the result is updated_samples
ApplyManual(samples, correct_samples, copy) ==
  [i \in 1..Len(samples) |->
     UpdatedSample(samples[i],
                   ResolveConflicts(copy, Conflicts(copy, <<>>, <<>>)),
                   correct_samples)]

\* a variant of the result whose update loop writes into the samples it was
\* given instead of into copies
InterfaceResultInPlace(samples, correct_samples, selected, stored, apply) ==
  [widgets |-> selected,
   manual_matches |-> IF apply THEN <<>> ELSE stored,
   copy |-> stored,
   argument |-> IF apply THEN ApplyManual(samples, correct_samples, stored)
                ELSE samples,
   samples |-> IF apply THEN ApplyManual(samples, correct_samples, stored)
               ELSE samples]

\* the loop's effect on the session and the return value, from what the
\* selectboxes return: copy is the dict the button's block works on,
\* argument is the list the caller passed as the call leaves it (the update
\* loop works on sample.copy())
InterfaceResult(samples, correct_samples, selected, stored, apply) ==
  [widgets |-> selected,
   manual_matches |-> IF apply THEN <<>> ELSE stored,
   copy |-> stored,
   argument |-> samples,
   samples |-> IF apply THEN ApplyManual(samples, correct_samples, stored)
               ELSE samples]

InterfaceStored(samples, correct_samples, manual_matches, selected, apply) ==
  InterfaceResult(samples, correct_samples, selected,
                  StoreSelections(manual_matches, samples, selected, GradeOrder(samples)),
                  apply)

\* one pass through add_manual_matching_interface; apply tells whether the
\* button "Применить ручное сопоставление" was pressed
add_manual_matching_interface(samples, correct_samples, manual_matches, widgets, apply) ==
  InterfaceStored(samples, correct_samples, manual_matches,
                  Selected(samples, correct_samples, manual_matches, widgets), apply)

(***************************************************************************)
(* ChemicalAnalyzer.parse_protocol_file and parse_composition_table.       *)
(* A protocol document is what python-docx shows of it: whether Document() *)
(* opens it, its paragraphs, whether doc.tables can be listed, its tables. *)
(* A paragraph or a table that python-docx cannot read raises when its     *)
(* text or rows are asked for.  A paragraph is abstracted to the marker it *)
(* holds and the text after the marker; a cell of a header row to its      *)
(* stripped text; a cell of a value row is a sequence of characters over   *)
(* digits, ",", ".", " ", "-", "<" and "pm" (the sign +/-).  Percentages   *)
(* are in thousandths.                                                     *)
(***************************************************************************)
all_elements == {"C", "Si", "Mn", "P", "S", "Cr", "Mo", "Ni",
                 "Cu", "Al", "Co", "Nb", "Ti", "V", "W", "Fe"}

\* text.strip()
Strip(s) ==
  LET inner == {i \in 1..Len(s) : ~IsSpace(s[i])}
  IN IF inner = {} THEN <<>> ELSE SubSeq(s, MinOf(inner), MaxOf(inner))

\* text.split(sep)[0]
BeforeFirst(s, sep) ==
  LET at == {i \in 1..Len(s) : s[i] = sep}
  IN IF at = {} THEN s ELSE SubSeq(s, 1, MinOf(at) - 1)

\* float(value_str) over the alphabet of the value cells: an optional minus
\* sign, digits with at most one point and at least one digit; <<v>> with v
\* in thousandths (the first three decimals), <<>> for ValueError
ParseFloat(s) ==
  LET body == IF s # <<>> /\ s[1] = "-" THEN Tail_(s, 2) ELSE s
      dots == {i \in 1..Len(body) : body[i] = "."}
      dot == IF dots = {} THEN Len(body) + 1 ELSE MinOf(dots)
      whole == SubSeq(body, 1, dot - 1)
      frac == SubSeq(body, dot + 1, Len(body))
      frac3 == [i \in 1..3 |-> IF i <= Len(frac) THEN frac[i] ELSE "0"]
      magnitude == 1000 * IntOf(whole) + IntOf(frac3)
  IN IF /\ \A i \in 1..Len(body) : IsDigit(body[i]) \/ body[i] = "."
        /\ Cardinality(dots) <= 1
        /\ \E i \in 1..Len(body) : IsDigit(body[i])
     THEN <<IF body = s THEN magnitude ELSE 0 - magnitude>>
     ELSE <<>>

\* value_str.replace(',', '.').replace(' ', ''), then the part before the
\* sign +/- if there is one
NormalisedCell(value_str) ==
  BeforeFirst(Replace(Replace(value_str, <<",">>, <<".">>), <<" ">>, <<>>), "pm")

\* the variant that stores zero for a cell that does not parse
CellValueZeroOnError(value_str) ==
  IF ParseFloat(NormalisedCell(value_str)) = <<>> THEN <<0>>
  ELSE ParseFloat(NormalisedCell(value_str))

\* value = float(value_str): <<value>>, or <<>> when it raises ValueError
CellValue(value_str) == ParseFloat(NormalisedCell(value_str))

\* for i, header in enumerate(headers_row): composition[header] = value
\* where the header is an element, the value row has a cell i and the cell
\* parses; otherwise the column is passed over
RECURSIVE ReadColumns(_, _, _, _)
ReadColumns(headers_row, values_row, i, composition) ==
  IF i > Len(headers_row) THEN composition
  ELSE IF /\ headers_row[i] \in all_elements
          /\ i <= Len(values_row)
          /\ CellValue(Strip(values_row[i])) # <<>>
       THEN ReadColumns(headers_row, values_row, i + 1,
                        [e \in DOMAIN composition \cup {headers_row[i]} |->
                           IF e = headers_row[i]
                           THEN CellValue(Strip(values_row[i]))[1]
                           ELSE composition[e]])
       ELSE ReadColumns(headers_row, values_row, i + 1, composition)

\* table_data[0], [5], [7], [12] are the rows 1, 6, 8, 13 here; an
\* unreadable table ends in the handler that returns {}
parse_composition_table(table) ==
  IF ~table.readable THEN <<>>
  ELSE IF Len(table.rows) < 13 THEN <<>>
  ELSE ReadColumns(table.rows[8], table.rows[13], 1,
                   ReadColumns(table.rows[1], table.rows[6], 1, <<>>))

\* re.sub(r'\*+', '', grade_text).strip().split(',')[0].strip(); a grade
\* name is one character of the alphabet of the grade texts
GradeOfText(grade_text) ==
  LET cleaned == Strip(BeforeFirst(Strip(SelectSeq(Strip(grade_text),
                                                   LAMBDA c : c # "*")), ","))
  IN IF Len(cleaned) = 1 THEN cleaned[1] ELSE cleaned

\* the loop over doc.paragraphs: <<TRUE, samples>>, or <<FALSE, <<>>>> when
\* a paragraph raises; current_sample is the last sample appended
RECURSIVE ReadParagraphs(_, _)
ReadParagraphs(paragraphs, samples) ==
  IF paragraphs = <<>> THEN <<TRUE, samples>>
  ELSE IF ~Head(paragraphs).readable THEN <<FALSE, <<>>>>
  ELSE IF Head(paragraphs).marker = "name"
       THEN ReadParagraphs(Tail(paragraphs),
                           Append(samples,
                                  ParsedSample(Strip(Head(paragraphs).rest), None, <<>>)))
  ELSE IF Head(paragraphs).marker = "grade" /\ samples # <<>>
       THEN ReadParagraphs(Tail(paragraphs),
                           [samples EXCEPT ![Len(samples)].steel_grade =
                              GradeOfText(Head(paragraphs).rest)])
  ELSE ReadParagraphs(Tail(paragraphs), samples)

\* the variant that gives every table to the first sample
FillFirstSample(tables, samples) ==
  [i \in 1..Len(samples) |->
     IF i = 1 /\ tables # <<>>
     THEN [samples[i] EXCEPT !.composition =
             parse_composition_table(tables[Len(tables)])]
     ELSE samples[i]]

\* the loop over doc.tables: table_index counts the tables taken, the
\* tables after the last sample are passed over
FillCompositions(tables, samples) ==
  [i \in 1..Len(samples) |->
     IF i <= Len(tables)
     THEN [samples[i] EXCEPT !.composition = parse_composition_table(tables[i])]
     ELSE samples[i]]

\* the variant that returns what it has collected when a paragraph raises
ParseKeepingCollected(doc) ==
  IF ~doc.opens \/ ~doc.lists_tables THEN <<>>
  ELSE FillCompositions(doc.tables,
         ReadParagraphs(SelectSeq(doc.paragraphs, LAMBDA p : p.readable), <<>>)[2])

parse_protocol_file(doc) ==
  IF ~doc.opens THEN <<>>
  ELSE IF ~ReadParagraphs(doc.paragraphs, <<>>)[1] THEN <<>>
  ELSE IF ~doc.lists_tables THEN <<>>
  ELSE FillCompositions(doc.tables, ReadParagraphs(doc.paragraphs, <<>>)[2])

(***************************************************************************)
(* SampleNameMatcher.parse_correct_names from the document: the rows of    *)
(* all tables, the paragraphs when no row gave an entry.  A cell and a     *)
(* paragraph are sequences of characters; "sup1" is the superscript one,   *)
(* a character for which str.isdigit() holds and int() raises ValueError.  *)
(***************************************************************************)
SuperscriptDigits == {"sup1"}

\* number_cell.isdigit() (the emptiness test comes before it)
IsDigitString(s) == s # <<>> /\ \A i \in 1..Len(s) : s[i] \in DigitChars \cup SuperscriptDigits

\* for table in doc.tables: for row in table.rows
RECURSIVE AllRows(_)
AllRows(tables) == IF tables = <<>> THEN <<>> ELSE Head(tables) \o AllRows(Tail(tables))

\* len(row.cells) >= 2 and number_cell and name_cell and number_cell.isdigit()
RowTaken(row) ==
  /\ Len(row) >= 2
  /\ Strip(row[2]) # <<>>
  /\ IsDigitString(Strip(row[1]))

\* re.match(r'^\s*(\d+)\s+([^\s].*)$', text) on the stripped text: a run of
\* digits, white space, then a name
ParagraphTaken(text) ==
  /\ DigitRun(Strip(text), 1) # <<>>
  /\ Len(DigitRun(Strip(text), 1)) < Len(Strip(text))
  /\ IsSpace(Strip(text)[Len(DigitRun(Strip(text), 1)) + 1])

\* match.group(1), match.group(2).strip()
ParagraphRow(text) ==
  [number |-> IntOf(DigitRun(Strip(text), 1)),
   name |-> Strip(Tail_(Strip(text), Len(DigitRun(Strip(text), 1)) + 1))]

\* the rows and, when no row was taken, the paragraphs that give an entry,
\* as <integer, name>
TakenRows(doc) ==
  IF SelectSeq(AllRows(doc.tables), RowTaken) # <<>>
  THEN [i \in 1..Len(SelectSeq(AllRows(doc.tables), RowTaken)) |->
          [number |-> IntOf(Strip(SelectSeq(AllRows(doc.tables), RowTaken)[i][1])),
           name |-> Strip(SelectSeq(AllRows(doc.tables), RowTaken)[i][2])]]
  ELSE [i \in 1..Len(SelectSeq(doc.paragraphs, ParagraphTaken)) |->
          ParagraphRow(SelectSeq(doc.paragraphs, ParagraphTaken)[i])]

\* int(number_cell) raises for a taken row whose number is not decimal; the
\* handler then returns [], and so it does when the document does not open
ParseCorrectNamesFile(doc) ==
  IF ~doc.opens THEN <<>>
  ELSE IF \E i \in 1..Len(AllRows(doc.tables)) :
            /\ RowTaken(AllRows(doc.tables)[i])
            /\ \E k \in 1..Len(Strip(AllRows(doc.tables)[i][1])) :
                 Strip(AllRows(doc.tables)[i][1])[k] \in SuperscriptDigits
       THEN <<>>
  ELSE parse_correct_names([rows |-> TakenRows(doc)])

(***************************************************************************)
(* save_user_standards and the file user_standards.json.  The file is the  *)
(* JSON text json.dump writes: an object with one member per grade, in     *)
(* order; a grade's spec is an object whose members are "source" and the   *)
(* elements, each element an array of two values, null or a number.        *)
(***************************************************************************)
predefined == {"12H1MF", "12H18N12T", "20", "Di82", "Di59"}

\* json.dump of a bound: None is written as null
JsonBound(b) ==
  IF b = <<>> THEN [null |-> TRUE, number |-> 0] ELSE [null |-> FALSE, number |-> b[1]]

\* json.load of a bound: null is read as None
PyBound(j) == IF j.null THEN <<>> ELSE <<j.number>>

\* json.dump(user_standards, f, ensure_ascii=False, indent=2)
json_dump(user_standards) ==
  [i \in 1..Len(user_standards) |->
     [key |-> user_standards[i].grade,
      members |->
        [source |-> user_standards[i].source,
         arrays |-> [k \in 1..Len(user_standards[i].elements) |->
                       [name |-> user_standards[i].elements[k][1],
                        items |-> <<JsonBound(user_standards[i].elements[k][2]),
                                    JsonBound(user_standards[i].elements[k][3])>>]]]]]

\* json.load(f): the members in the order of the text
json_load(text) ==
  [i \in 1..Len(text) |->
     [grade |-> text[i].key,
      source |-> text[i].members.source,
      elements |-> [k \in 1..Len(text[i].members.arrays) |->
                      <<text[i].members.arrays[k].name,
                        PyBound(text[i].members.arrays[k].items[1]),
                        PyBound(text[i].members.arrays[k].items[2])>>]]]

\* the variant that writes every grade
SaveAllStandards(stds) == [exists |-> TRUE, text |-> json_dump(stds)]

\* user_standards = {k: v for k, v in self.standards.items() if k not in predefined}
save_user_standards(stds) ==
  [exists |-> TRUE,
   text |-> json_dump(SelectSeq(stds, LAMBDA s : s.grade \notin predefined))]

\* ChemicalAnalyzer(): load_standards with the file that is there
LoadStandardsFile(file) ==
  IF file.exists THEN load_standards(json_load(file.text)) ELSE load_standards(<<>>)

(***************************************************************************)
(* The threshold of the yield strength above 20 C, as the specification    *)
(* of the compliance evaluator describes it: a grade has an ordered list   *)
(* of breakpoints <<temperature, threshold>> and a room-temperature        *)
(* minimum anchored at 20 C.                                               *)
(***************************************************************************)
\* round(n / d) for d > 0 and n >= 0: to the nearest integer, a half to the
\* even one
RoundHalfEven(n, d) ==
  IF 2 * (n % d) < d THEN n \div d
  ELSE IF 2 * (n % d) > d THEN (n \div d) + 1
  ELSE IF (n \div d) % 2 = 0 THEN n \div d
  ELSE (n \div d) + 1

\* the variant that rounds a half upwards
BetweenHalfUp(a, b, temp) ==
  (2 * (a[2] * (b[1] - a[1]) + (b[2] - a[2]) * (temp - a[1])) + (b[1] - a[1]))
    \div (2 * (b[1] - a[1]))

\* round(v1 + (v2 - v1) * (temp - t1) / (t2 - t1)) between the breakpoints
\* a = <<t1, v1>> and b = <<t2, v2>>
Between(a, b, temp) ==
  RoundHalfEven(a[2] * (b[1] - a[1]) + (b[2] - a[2]) * (temp - a[1]), b[1] - a[1])

Interpolate(breakpoints, room_min, temp) ==
  IF \E i \in 1..Len(breakpoints) : breakpoints[i][1] = temp
  THEN breakpoints[CHOOSE i \in 1..Len(breakpoints) : breakpoints[i][1] = temp][2]
  ELSE IF temp > breakpoints[Len(breakpoints)][1]
       THEN breakpoints[Len(breakpoints)][2]
  ELSE IF temp < breakpoints[1][1]
       THEN IF breakpoints[1][1] <= 20 THEN breakpoints[1][2]
            ELSE Between(<<20, room_min>>, breakpoints[1], temp)
  ELSE Between(breakpoints[CHOOSE i \in 1..(Len(breakpoints) - 1) :
                             breakpoints[i][1] < temp /\ temp < breakpoints[i + 1][1]],
               breakpoints[(CHOOSE i \in 1..(Len(breakpoints) - 1) :
                              breakpoints[i][1] < temp /\ temp < breakpoints[i + 1][1]) + 1],
               temp)

\* one-sided: the value must be at least the threshold
YieldCompliance(yield_value, threshold) ==
  IF yield_value >= threshold THEN "normal" ELSE "deviation"

(***************************************************************************)
(* The state: the uploads and the overlay file (the inputs), the script's  *)
(* position, and what each step of main leaves behind.                     *)
(***************************************************************************)
VARIABLES pc, correct_names_file, protocol_samples, standards, correct_samples,
          match_result, all_samples, manual_matches, widgets, applied_matches,
          samples, report_tables

\* the arguments and the result of one call of check_element_compliance
VARIABLES element, value, standard, compliance

checkVars == <<element, value, standard, compliance>>

\* the argument and the result of one call of parse_protocol_file
VARIABLES protocol_content, protocol_result

parseVars == <<protocol_content, protocol_result>>

\* the argument and the result of one call of parse_correct_names
VARIABLES names_content, names_result

namesVars == <<names_content, names_result>>

\* the file user_standards.json
VARIABLES user_standards_json

\* the arguments and the result of one evaluation of a yield strength
VARIABLES yield_norm, temperature, yield_value, yield_threshold, yield_status

yieldVars == <<yield_norm, temperature, yield_value, yield_threshold, yield_status>>

\* the argument and the result of one call of parse_protocol_sample_name
\* (sample_name and protocol_info are names of parameters and locals above)
VARIABLES sample_label, label_info

labelVars == <<sample_label, label_info>>

\* what main leaves behind
mainVars == <<correct_names_file, protocol_samples, standards, correct_samples,
              match_result, all_samples, manual_matches, widgets,
              applied_matches, samples, report_tables>>

\* what the calls made on their own read and write
pureVars == <<checkVars, parseVars, namesVars, user_standards_json, yieldVars,
              labelVars>>

vars == <<pc, correct_names_file, protocol_samples, standards, correct_samples,
          match_result, all_samples, manual_matches, widgets, applied_matches,
          samples, report_tables, pureVars>>

(***************************************************************************)
(* The inputs.                                                             *)
(***************************************************************************)
\* the most samples in the protocols, the most rows in the reference list
MaxRecords == 2

MaxCorrect == 2

\* declared grades: "20" has a built-in spec, "09G2S" (09Г2С) has none
Grades == {"20", "09G2S"}

\* a composition table with carbon only, 0.20 %
Compositions == {[e \in {"C"} |-> 200]}

\* all sequences over S of length 0..n
SeqsUpTo(S, n) == UNION {[1..k -> S] : k \in 0..n}

ProtocolRecords ==
  {ParsedSample(l, g, c) : l \in ProtocolLabels, g \in Grades, c \in Compositions}

\* the rows of a reference list: the names in file order, numbered upwards
\* from 1 or downwards to 1
ReferenceFiles ==
  {[uploaded |-> TRUE,
    rows |-> [i \in 1..Len(names) |->
                [number |-> IF up THEN i ELSE Len(names) + 1 - i, name |-> names[i]]]] :
     names \in SeqsUpTo(CanonicalNames, MaxCorrect), up \in BOOLEAN}
  \cup {[uploaded |-> FALSE, rows |-> <<>>]}

NoTables == [returned |-> "None", tables |-> <<>>]

\* no file user_standards.json
NoOverlay == [exists |-> FALSE, text |-> <<>>]

\* what a script run starts from, given the uploads
Started(files, records) ==
  /\ pc = "start"
  /\ correct_names_file \in files
  /\ protocol_samples \in records
  /\ user_standards_json = NoOverlay
  /\ standards = LoadStandardsFile(user_standards_json)
  /\ correct_samples = <<>>
  /\ match_result = NoMatch
  /\ all_samples = <<>>
  /\ manual_matches = <<>>
  /\ widgets = <<>>
  /\ applied_matches = <<>>
  /\ samples = <<>>
  /\ report_tables = NoTables

\* no call of check_element_compliance on its own
NothingChecked ==
  /\ element = None
  /\ value = 0
  /\ standard = [grade |-> None, source |-> None, elements |-> <<>>]
  /\ compliance = None

\* a script run with nothing uploaded
NoUploads == Started({[uploaded |-> FALSE, rows |-> <<>>]}, {<<>>})

\* no call of parse_protocol_file on its own
NoDocument == [opens |-> FALSE, paragraphs |-> <<>>, lists_tables |-> FALSE, tables |-> <<>>]

NothingParsed ==
  /\ protocol_content = NoDocument
  /\ protocol_result = <<>>

\* no call of parse_protocol_sample_name on its own
NoInfo == [original |-> NoText, surface_type |-> None, tube_number |-> NoText]

NothingNamed ==
  /\ sample_label = NoText
  /\ label_info = NoInfo

\* no yield strength evaluated
NothingEvaluated ==
  /\ yield_norm = [breakpoints |-> <<>>, room_min |-> 0]
  /\ temperature = 20
  /\ yield_value = 0
  /\ yield_threshold = 0
  /\ yield_status = None

\* no call of parse_correct_names on its own
NoNames == [opens |-> FALSE, tables |-> <<>>, paragraphs |-> <<>>]

NothingListed ==
  /\ names_content = NoNames
  /\ names_result = <<>>

Init ==
  /\ Started(ReferenceFiles, SeqsUpTo(ProtocolRecords, MaxRecords))
  /\ NothingEvaluated
  /\ NothingNamed
  /\ NothingChecked
  /\ NothingParsed
  /\ NothingListed

(***************************************************************************)
(* The steps of main in the first script run.                              *)
(***************************************************************************)
\* st.session_state.correct_samples = parse_correct_names(...)
ParseCorrectNames ==
  /\ pc = "start"
  /\ pc' = "parsed"
  /\ correct_samples' = IF correct_names_file.uploaded
                        THEN parse_correct_names(correct_names_file) ELSE <<>>
  /\ UNCHANGED <<correct_names_file, protocol_samples, standards, match_result,
                 all_samples, manual_matches, widgets, applied_matches, samples,
                 report_tables, pureVars>>

\* if all_samples: ... match_sample_names(all_samples, correct_names_file)
\* when a list was uploaded and yielded entries, else the samples as parsed
MatchSampleNames ==
  /\ pc = "parsed"
  /\ protocol_samples # <<>>
  /\ pc' = "matched"
  /\ LET r == match_sample_names(protocol_samples, correct_names_file)
     IN /\ all_samples' = r.all_samples
        /\ protocol_samples' = r.samples
        /\ match_result' = r.match
  /\ UNCHANGED <<correct_names_file, standards, correct_samples, manual_matches,
                 widgets, applied_matches, samples, report_tables, pureVars>>

\* the interface is drawn when a list was uploaded and yielded entries
InterfaceShown == correct_names_file.uploaded /\ correct_samples # <<>>

\* all_samples = add_manual_matching_interface(...), no button pressed;
\* st.session_state.samples = all_samples
AddManualMatchingInterface ==
  /\ pc = "matched"
  /\ pc' = "shown"
  /\ IF InterfaceShown
     THEN LET r == add_manual_matching_interface(all_samples, correct_samples,
                                                 manual_matches, widgets, FALSE)
          IN /\ manual_matches' = r.manual_matches
             /\ widgets' = r.widgets
             /\ all_samples' = r.argument
             /\ samples' = r.samples
     ELSE /\ samples' = all_samples
          /\ UNCHANGED <<manual_matches, widgets, all_samples>>
  /\ UNCHANGED <<correct_names_file, protocol_samples, standards, correct_samples,
                 match_result, applied_matches, report_tables, pureVars>>

\* report_tables = analyzer.create_report_tables(st.session_state.samples)
CreateReportTables ==
  /\ pc = "shown"
  /\ pc' = "done"
  /\ report_tables' = create_report_tables(samples, standards)
  /\ UNCHANGED <<correct_names_file, protocol_samples, standards, correct_samples,
                 match_result, all_samples, manual_matches, widgets,
                 applied_matches, samples, pureVars>>

Next ==
  ParseCorrectNames \/ MatchSampleNames \/ AddManualMatchingInterface
    \/ CreateReportTables

Spec == Init /\ [][Next]_vars

(***************************************************************************)
(* The later script runs: every interaction with the page runs main again. *)
(* The uploads are the same, so the run parses and matches to the same     *)
(* all_samples; what differs is the session (manual_matches, the values of *)
(* the selectboxes) and the button that was pressed.                       *)
(***************************************************************************)
\* the rest of a later run, from the result of the interface
Rerun(r, position) ==
  /\ pc' = position
  /\ manual_matches' = r.manual_matches
  /\ widgets' = r.widgets
  /\ applied_matches' = IF position = "applied" THEN r.copy ELSE applied_matches
  /\ all_samples' = r.argument
  /\ samples' = r.samples
  /\ report_tables' = create_report_tables(r.samples, standards)
  /\ UNCHANGED <<correct_names_file, protocol_samples, standards, correct_samples,
                 match_result, pureVars>>

\* the user picks another option in the selectbox of sample i
SelectName(i, option) ==
  /\ pc \in {"done", "applied", "reported"}
  /\ InterfaceShown
  /\ i \in DOMAIN widgets
  /\ option \in all_options(correct_samples) \ {widgets[i]}
  /\ Rerun(add_manual_matching_interface(all_samples, correct_samples, manual_matches,
                                         [widgets EXCEPT ![i] = option], FALSE),
           "done")

\* the button "Сбросить все ручные сопоставления": manual_matches = {} and
\* st.rerun(), the run that follows fills the dict from the selectboxes
ResetManualMatches ==
  /\ pc \in {"done", "applied", "reported"}
  /\ InterfaceShown
  /\ Rerun(add_manual_matching_interface(all_samples, correct_samples, <<>>,
                                         widgets, FALSE),
           "done")

\* the button "Применить ручное сопоставление"
ApplyManualMatching ==
  /\ pc \in {"done", "applied", "reported"}
  /\ InterfaceShown
  /\ Rerun(add_manual_matching_interface(all_samples, correct_samples, manual_matches,
                                         widgets, TRUE),
           "applied")

\* if report_tables: ... st.button("Создать Word отчет")
ReportButtonShown(tables) == tables.tables # <<>>

\* the button "Создать Word отчет": the run it starts parses and matches
\* again and draws the interface with none of its buttons pressed;
\* create_word_report(export_tables, st.session_state.samples, analyzer) is
\* reached when that run has tables, with the tables and samples of that run
CreateWordReport ==
  /\ pc \in {"done", "applied", "reported"}
  /\ ReportButtonShown(report_tables)
  /\ LET r == IF InterfaceShown
              THEN add_manual_matching_interface(all_samples, correct_samples,
                                                 manual_matches, widgets, FALSE)
              ELSE [widgets |-> widgets, manual_matches |-> manual_matches,
                    copy |-> manual_matches, argument |-> all_samples,
                    samples |-> all_samples]
     IN Rerun(r, IF ReportButtonShown(create_report_tables(r.samples, standards))
                 THEN "reported" ELSE "done")

\* the uploads of the runs with manual matching: a list of one or two
\* entries, samples with one of two labels
ManualNames == {nameEPK1, namePipeB2}

ManualFiles ==
  {[uploaded |-> TRUE,
    rows |-> [i \in 1..Len(names) |-> [number |-> i, name |-> names[i]]]] :
     names \in [{1} -> ManualNames] \cup [{1, 2} -> ManualNames]}

ManualRecords ==
  {ParsedSample(l, g, c) : l \in {lblTr1EPK, lblTr2}, g \in Grades, c \in Compositions}

InitManual ==
  /\ Started(ManualFiles, SeqsUpTo(ManualRecords, MaxRecords))
  /\ NothingEvaluated
  /\ NothingNamed
  /\ NothingChecked
  /\ NothingParsed
  /\ NothingListed

NextManual ==
  \/ ParseCorrectNames
  \/ MatchSampleNames
  \/ AddManualMatchingInterface
  \/ CreateReportTables
  \/ \E i \in 1..MaxRecords : \E option \in {optNotMatched} \cup ManualNames :
       SelectName(i, option)
  \/ ResetManualMatches
  \/ ApplyManualMatching
  \/ CreateWordReport

SpecManual == InitManual /\ [][NextManual]_vars

(***************************************************************************)
(* check_element_compliance on its own: the element, the value and the     *)
(* grade's spec are drawn from small sets.  Percentages are in thousandths.*)
(***************************************************************************)
\* the largest value and bound
MaxValue == 4

CheckElements == {"C", "Si", "source"}

\* an absent bound (None) or a bound
CheckBounds == {<<>>} \cup {<<b>> : b \in 1..MaxValue}

\* specs for carbon with every pair of bounds, as the overlay file may hold
\* them, and the built-in spec of grade "20"
CheckStandards ==
  {[grade |-> "user", source |-> "user", elements |-> << <<"C", lo, hi>> >>] :
     lo \in CheckBounds, hi \in CheckBounds}
  \cup {StandardOf(BuiltinStandards, "20")}

CheckValues == (0..(MaxValue + 1)) \cup {170, 240, 250}

InitCompliance ==
  /\ NoUploads
  /\ NothingEvaluated
  /\ NothingNamed
  /\ NothingParsed
  /\ NothingListed
  /\ element \in CheckElements
  /\ value \in CheckValues
  /\ standard \in CheckStandards
  /\ compliance = None

\* status = self.check_element_compliance(elem, value, standard)
CheckElementCompliance ==
  /\ pc = "start"
  /\ pc' = "checked"
  /\ compliance' = check_element_compliance(element, value, standard)
  /\ UNCHANGED <<mainVars, element, value, standard, parseVars, namesVars,
                 user_standards_json, yieldVars, labelVars>>

NextCompliance == CheckElementCompliance

SpecCompliance == InitCompliance /\ [][NextCompliance]_vars

(***************************************************************************)
(* parse_protocol_file on its own: the document is drawn from a small set  *)
(* of documents, readable or not.                                          *)
(***************************************************************************)
\* the most paragraphs and the most tables of a protocol document
MaxParagraphs == 3

MaxTables == 2

\* two paragraphs with the marker "Наименование образца:", one with the grade
\* line, one with neither, one that cannot be read
ProtocolParagraphs ==
  {[readable |-> TRUE, marker |-> "name", rest |-> <<" ">> \o lblTr2],
   [readable |-> TRUE, marker |-> "name", rest |-> lblTr1 \o <<" ">>],
   [readable |-> TRUE, marker |-> "grade", rest |-> <<" ", "20", "*", "*", ",", " ", "x">>],
   [readable |-> TRUE, marker |-> "none", rest |-> <<>>],
   [readable |-> FALSE, marker |-> "none", rest |-> <<>>]}

\* a table of n rows with the given header and value rows
TableOf(n, headers_row1, values_row1, headers_row2, values_row2) ==
  [readable |-> TRUE,
   rows |-> [i \in 1..n |->
               CASE i = 1 -> headers_row1 [] i = 6 -> values_row1
                 [] i = 8 -> headers_row2 [] i = 13 -> values_row2
                 [] OTHER -> <<>>]]

\* C 0,20 / Si <0,2 / Mn 0,5 +/- 0,1 in 13 rows; the same in 12 rows;
\* C 0,0 / Si - with an empty second value row; C 1.2.3 then C 0,17 in 14
\* rows; a table that cannot be read
ProtocolTables ==
  {TableOf(13, <<"label", "C", "Si">>,
               << <<"x">>, <<"0", ",", "2", "0">>, <<"<", "0", ",", "2">> >>,
               <<"label", "Mn">>,
               << <<"x">>, <<" ", "0", ",", "5", " ", "pm", " ", "0", ",", "1">> >>),
   TableOf(12, <<"label", "C", "Si">>,
               << <<"x">>, <<"0", ",", "2", "0">>, <<"<", "0", ",", "2">> >>,
               <<"label", "Mn">>,
               << <<"x">>, <<" ", "0", ",", "5", " ", "pm", " ", "0", ",", "1">> >>),
   TableOf(13, <<"C", "Si">>, << <<"0", ",", "0">>, <<"-">> >>, <<"C">>, <<>>),
   TableOf(14, <<"C">>, << <<"1", ".", "2", ".", "3">> >>,
               <<"C">>, << <<"0", ",", "1", "7">> >>),
   [readable |-> FALSE, rows |-> <<>>]}

\* the documents of at most p paragraphs and t tables, and the file that
\* does not open
ProtocolDocuments(p, t) ==
  {[opens |-> TRUE, paragraphs |-> ps, lists_tables |-> l, tables |-> ts] :
     ps \in SeqsUpTo(ProtocolParagraphs, p), l \in BOOLEAN,
     ts \in SeqsUpTo(ProtocolTables, t)}
  \cup {NoDocument}

InitProtocol ==
  /\ NoUploads
  /\ NothingEvaluated
  /\ NothingNamed
  /\ NothingChecked
  /\ NothingListed
  /\ protocol_content \in ProtocolDocuments(MaxParagraphs, MaxTables)
  /\ protocol_result = <<>>

\* samples = analyzer.parse_protocol_file(uploaded_file.getvalue())
ParseProtocolFile ==
  /\ pc = "start"
  /\ pc' = "extracted"
  /\ protocol_result' = parse_protocol_file(protocol_content)
  /\ UNCHANGED <<mainVars, checkVars, namesVars, user_standards_json, yieldVars,
                 labelVars, protocol_content>>

NextProtocol == ParseProtocolFile

SpecProtocol == InitProtocol /\ [][NextProtocol]_vars

(***************************************************************************)
(* parse_correct_names on its own: the reference document is drawn from a  *)
(* small set of documents.                                                 *)
(***************************************************************************)
\* the most rows in the tables and the most paragraphs of the document
MaxNameRows == 2

MaxNameParagraphs == 2

\* 2 | Pipe A;  " 1" | ЭПК (1) | x;  No | name;  a row of one cell;
\* a footnote row with the superscript one;  3 | " "
NameRows ==
  {<< <<"2">>, namePipeA >>,
   << <<" ", "1">>, nameEPK1 \o <<" ">>, <<"x">> >>,
   << <<"N", "o">>, <<"n", "a", "m", "e">> >>,
   << <<"1">> >>,
   << <<"sup1">>, namePipeB >>,
   << <<"3">>, <<" ">> >>}

\* "2 Pipe B",  " 1   ЭПК (1) ",  "Pipe A",  "sup1 Pipe B",  "12"
NameParagraphs ==
  {<<"2", " ">> \o namePipeB,
   <<" ", "1", " ", " ">> \o nameEPK1 \o <<" ">>,
   namePipeA,
   <<"sup1", " ">> \o namePipeB,
   <<"1", "2">>}

\* the documents of at most two tables with at most r rows between them
\* and at most p paragraphs, and the file that does not open
NameDocuments(r, p) ==
  {[opens |-> TRUE, tables |-> ts, paragraphs |-> ps] :
     ts \in {t \in SeqsUpTo(SeqsUpTo(NameRows, r), 2) : Len(AllRows(t)) <= r},
     ps \in SeqsUpTo(NameParagraphs, p)}
  \cup {NoNames}

InitNames ==
  /\ NoUploads
  /\ NothingEvaluated
  /\ NothingNamed
  /\ NothingChecked
  /\ NothingParsed
  /\ names_content \in NameDocuments(MaxNameRows, MaxNameParagraphs)
  /\ names_result = <<>>

\* st.session_state.correct_samples = parse_correct_names(correct_names_file.getvalue())
ReadCorrectNames ==
  /\ pc = "start"
  /\ pc' = "listed"
  /\ names_result' = ParseCorrectNamesFile(names_content)
  /\ UNCHANGED <<mainVars, checkVars, parseVars, user_standards_json, yieldVars,
                 labelVars, names_content>>

NextNames == ReadCorrectNames

SpecNames == InitNames /\ [][NextNames]_vars

(***************************************************************************)
(* The overlay file and the standards in memory: the analyzer is built     *)
(* (load_standards), the standards are saved, the file is edited by hand.  *)
(***************************************************************************)
\* the most grades in a hand-written user_standards.json
MaxUserSpecs == 2

\* the members of a hand-written file: the grade "X1" twice, with different
\* bounds, the grade "X2", and the built-in grade "20" with other bounds
UserMembers ==
  {[key |-> "X1",
    members |-> [source |-> "user",
                 arrays |-> << [name |-> "C", items |-> <<JsonBound(<<100>>), JsonBound(<<200>>)>>] >>]],
   [key |-> "X1",
    members |-> [source |-> "user",
                 arrays |-> << [name |-> "C", items |-> <<JsonBound(<<>>), JsonBound(<<300>>)>>] >>]],
   [key |-> "X2",
    members |-> [source |-> "lab",
                 arrays |-> << [name |-> "S", items |-> <<JsonBound(<<>>), JsonBound(<<20>>)>>],
                               [name |-> "C", items |-> <<JsonBound(<<170>>), JsonBound(<<>>)>>] >>]],
   [key |-> "20",
    members |-> [source |-> "mine",
                 arrays |-> << [name |-> "C", items |-> <<JsonBound(<<100>>), JsonBound(<<300>>)>>] >>]]}

OverlayFiles ==
  {[exists |-> TRUE, text |-> t] : t \in SeqsUpTo(UserMembers, MaxUserSpecs)}
  \cup {NoOverlay}

InitOverlay ==
  /\ pc = "start"
  /\ correct_names_file = [uploaded |-> FALSE, rows |-> <<>>]
  /\ protocol_samples = <<>>
  /\ user_standards_json \in OverlayFiles
  /\ standards = LoadStandardsFile(user_standards_json)
  /\ correct_samples = <<>>
  /\ match_result = NoMatch
  /\ all_samples = <<>>
  /\ manual_matches = <<>>
  /\ widgets = <<>>
  /\ applied_matches = <<>>
  /\ samples = <<>>
  /\ report_tables = NoTables
  /\ NothingEvaluated
  /\ NothingNamed
  /\ NothingChecked
  /\ NothingParsed
  /\ NothingListed

\* analyzer = ChemicalAnalyzer()
LoadStandards ==
  /\ pc' = "loaded"
  /\ standards' = LoadStandardsFile(user_standards_json)
  /\ UNCHANGED <<correct_names_file, protocol_samples, correct_samples, match_result,
                 all_samples, manual_matches, widgets, applied_matches, samples,
                 report_tables, pureVars>>

\* analyzer.save_user_standards()
SaveUserStandards ==
  /\ pc' = "saved"
  /\ user_standards_json' = save_user_standards(standards)
  /\ UNCHANGED <<mainVars, checkVars, parseVars, namesVars, yieldVars, labelVars>>

\* the file is written or removed by hand
EditOverlay ==
  /\ pc' = "edited"
  /\ user_standards_json' \in OverlayFiles
  /\ UNCHANGED <<mainVars, checkVars, parseVars, namesVars, yieldVars, labelVars>>

NextOverlay == LoadStandards \/ SaveUserStandards \/ EditOverlay

SpecOverlay == InitOverlay /\ [][NextOverlay]_vars

(***************************************************************************)
(* The evaluation of one yield strength above 20 C.                        *)
(***************************************************************************)
\* the breakpoints of two grades, each with its room-temperature minimum
YieldNorms ==
  {[breakpoints |-> << <<250, 196>>, <<400, 137>>, <<450, 127>> >>, room_min |-> 216],
   [breakpoints |-> << <<300, 150>>, <<500, 101>> >>, room_min |-> 180]}

YieldTemperatures == {100, 250, 300, 325, 400, 425, 450, 500}

YieldValues == {100, 126, 127, 137, 165, 166, 167, 196, 200}

InitYield ==
  /\ NoUploads
  /\ NothingChecked
  /\ NothingParsed
  /\ NothingListed
  /\ NothingNamed
  /\ yield_norm \in YieldNorms
  /\ temperature \in YieldTemperatures
  /\ yield_value \in YieldValues
  /\ yield_threshold = 0
  /\ yield_status = None

EvaluateYield ==
  /\ pc = "start"
  /\ pc' = "evaluated"
  /\ yield_threshold' = Interpolate(yield_norm.breakpoints, yield_norm.room_min, temperature)
  /\ yield_status' = YieldCompliance(yield_value,
                       Interpolate(yield_norm.breakpoints, yield_norm.room_min, temperature))
  /\ UNCHANGED <<mainVars, checkVars, parseVars, namesVars, user_standards_json,
                 labelVars, yield_norm, temperature, yield_value>>

NextYield == EvaluateYield

SpecYield == InitYield /\ [][NextYield]_vars

(***************************************************************************)
(* parse_protocol_sample_name on its own: the label is put together from   *)
(* a few fragments, or is one of the labels that name the surface КПП НД   *)
(* with a Roman or an Arabic numeral.                                      *)
(***************************************************************************)
\* the most fragments in a label
MaxFragments == 3

\* "тр.", "тр", "труба", "№", " ", "5", "12", "(7)", "A"
LabelFragments ==
  {<<"cyt", "cyr", ".">>, <<"cyt", "cyr">>, txtTruba, <<"No">>, <<" ">>,
   <<"5">>, <<"1", "2">>, <<"(", "7", ")">>, <<"A">>}

\* the labels of at most n fragments
RECURSIVE LabelsOf(_)
LabelsOf(n) ==
  IF n = 0 THEN {<<>>}
  ELSE LabelsOf(n - 1) \cup {l \o f : l \in LabelsOf(n - 1), f \in LabelFragments}

\* "КПП НД-" or "НД-", then I, II, 1 or 2, after "" or "тр.5 ", before ""
\* or " A"
SurfaceLabels ==
  {head \o stem \o numeral \o tail :
     head \in {<<>>, <<"cyt", "cyr", ".", "5", " ">>},
     stem \in {txtKPP_ND, txtND},
     numeral \in {<<"I">>, <<"I", "I">>, <<"1">>, <<"2">>},
     tail \in {<<>>, <<" ", "A">>}}

InitLabel ==
  /\ NoUploads
  /\ NothingEvaluated
  /\ NothingChecked
  /\ NothingParsed
  /\ NothingListed
  /\ sample_label \in LabelsOf(MaxFragments) \cup SurfaceLabels
  /\ label_info = NoInfo

\* protocol_info = self.parse_protocol_sample_name(protocol_sample['original_name'])
ParseProtocolSampleName ==
  /\ pc = "start"
  /\ pc' = "named"
  /\ label_info' = parse_protocol_sample_name(sample_label)
  /\ UNCHANGED <<mainVars, checkVars, parseVars, namesVars, user_standards_json,
                 yieldVars, sample_label>>

NextLabel == ParseProtocolSampleName

SpecLabel == InitLabel /\ [][NextLabel]_vars

(***************************************************************************)
(* Properties of the reconciliation (match_samples).                       *)
(***************************************************************************)
\* match_samples has run in this script run
MatchRan == pc \notin {"start", "parsed"} /\ correct_samples # <<>>

\* the pairs of the matched output, the positions of the unmatched output
MatchedPairs == match_result.matched_samples

UnmatchedOut == match_result.unmatched_protocol

\* how often sample i occurs in the matched, in the unmatched output
TimesMatched(i) == Cardinality({k \in 1..Len(MatchedPairs) : MatchedPairs[k][1] = i})

TimesUnmatched(i) == Cardinality({k \in 1..Len(UnmatchedOut) : UnmatchedOut[k] = i})

\* C1: in one call of match_samples no canonical entry occurs in more than
\* one pair of the matched output, the pairs of both stages taken together.
C1_EntryMatchedAtMostOnce ==
  \A j, k \in 1..Len(MatchedPairs) : j # k => MatchedPairs[j][2] # MatchedPairs[k][2]

\* C1 witness: both stages have produced a pair, for two entries that share
\* their tube number.
C1_Witness ==
  /\ MatchRan
  /\ Len(match_result.matches_stage1) >= 1
  /\ Len(MatchedPairs) > Len(match_result.matches_stage1)
  /\ \E j, k \in 1..Len(MatchedPairs) :
       /\ j # k
       /\ correct_samples[MatchedPairs[j][2]].tube_number
            = correct_samples[MatchedPairs[k][2]].tube_number

\* C2: after match_samples every input sample is in exactly one place, once
\* in the matched output or once in the unmatched output; a sample matched
\* in stage 1 is not offered to stage 2.
C2_EverySampleInOnePlace ==
  MatchRan =>
    /\ \A i \in 1..Len(protocol_samples) : TimesMatched(i) + TimesUnmatched(i) = 1
    /\ \A k \in 1..Len(match_result.matches_stage1) :
         match_result.matches_stage1[k][1] \notin Range(match_result.offered_stage2)

\* Stage 1 as the claim describes it, replayed over the samples in order:
\* used is the set of entries paired so far, and a sample is paired with
\* the first entry, in the order of the canonical list, that is not used
\* and has its non-null tube number and its non-null surface type.
RECURSIVE C3_Replay(_, _, _)
C3_Replay(i, used, pairs) ==
  IF i > Len(protocol_samples) THEN pairs
  ELSE LET info == ProtocolInfo(protocol_samples[i].name)
           ok == {c \in 1..Len(correct_samples) :
                    /\ c \notin used
                    /\ info.tube_number # NoText
                    /\ correct_samples[c].tube_number = info.tube_number
                    /\ info.surface_type # None
                    /\ correct_samples[c].surface_type = info.surface_type}
       IN IF ok = {} THEN C3_Replay(i + 1, used, pairs)
          ELSE C3_Replay(i + 1, used \cup {MinOf(ok)},
                         Append(pairs, <<i, MinOf(ok), StageTubeAndType>>))

\* C3: stage 1 pairs a sample with an entry iff the entry is not yet used
\* and both have the same non-null tube number and the same non-null
\* surface type; the first such entry of the canonical list is chosen and
\* is used from then on.
C3_Stage1FirstUnusedEntry ==
  MatchRan => match_result.matches_stage1 = C3_Replay(1, {}, <<>>)

\* The canonical list of C4: two entries with one tube number and different
\* surface types.
C4_TwoEntriesOneTube ==
  /\ MatchRan
  /\ Len(correct_samples) = 2
  /\ correct_samples[1].tube_number # NoText
  /\ correct_samples[1].tube_number = correct_samples[2].tube_number
  /\ correct_samples[1].surface_type # correct_samples[2].surface_type

\* the entries paired before stage 2 reaches sample i: those of stage 1 and
\* those stage 2 gave to earlier samples
C4_UsedBefore(i) ==
  {MatchedPairs[k][2] : k \in {j \in 1..Len(MatchedPairs) :
                                 \/ MatchedPairs[j][3] = StageTubeAndType
                                 \/ MatchedPairs[j][1] < i}}

\* C4: with two entries of one tube number and different surface types, a
\* sample of that tube number whose surface type is that of exactly one
\* entry gets this entry in stage 1 (no earlier sample having the same tube
\* number and type); a sample of that tube number without a surface type
\* gets nothing in stage 1 and, in stage 2, the first entry of the
\* canonical list that is still unused, if there is one.
C4_StageOrder ==
  C4_TwoEntriesOneTube =>
    \A i \in 1..Len(protocol_samples) :
      LET info == ProtocolInfo(protocol_samples[i].name)
          same == {c \in 1..2 : correct_samples[c].surface_type = info.surface_type}
          free == (1..2) \ C4_UsedBefore(i)
      IN info.tube_number = correct_samples[1].tube_number =>
           /\ (/\ info.surface_type # None
               /\ Cardinality(same) = 1
               /\ \A h \in 1..(i - 1) : ProtocolInfo(protocol_samples[h].name) # info)
              => \E c \in same :
                   <<i, c, StageTubeAndType>> \in Range(match_result.matches_stage1)
           /\ info.surface_type = None
              => /\ \A k \in 1..Len(match_result.matches_stage1) :
                      match_result.matches_stage1[k][1] # i
                 /\ IF free = {} THEN TimesMatched(i) = 0
                    ELSE <<i, MinOf(free), StageTubeOnly>> \in Range(MatchedPairs)

\* C4 witness: a typed sample took the second entry in stage 1, and a sample
\* without a type then took the first entry in stage 2.
C4_Witness ==
  /\ C4_TwoEntriesOneTube
  /\ \E i, h \in 1..Len(protocol_samples) :
       /\ ProtocolInfo(protocol_samples[i].name).surface_type = None
       /\ <<i, 1, StageTubeOnly>> \in Range(MatchedPairs)
       /\ <<h, 2, StageTubeAndType>> \in Range(MatchedPairs)

\* The scenario of C5: the reference list as uploaded, the labels of the
\* two protocol samples.
C5_Scenario(name1, name2) ==
  /\ pc \notin {"start", "parsed"}
  /\ correct_names_file.uploaded
  /\ correct_names_file.rows = <<[number |-> 1, name |-> name1],
                                 [number |-> 2, name |-> name2]>>
  /\ Len(protocol_samples) = 2
  /\ protocol_samples[1].name = lblTr1EPK
  /\ protocol_samples[2].name = lblTr2

\* sample 1 is matched at stage tube+type only if its entry's derived
\* surface type is ЭПК
C5_TypedOnlyIfEPK ==
  \A k \in 1..Len(MatchedPairs) :
    (MatchedPairs[k][1] = 1 /\ MatchedPairs[k][3] = StageTubeAndType)
      => correct_samples[MatchedPairs[k][2]].surface_type = "EPK"

\* C5 as stated: with the list [(1, "Pipe A"), (2, "Pipe B")] and the labels
\* "тр.1 ЭПК" and "тр.2", sample 2 is matched to "Pipe B" at stage tube-only
\* and sample 1 to "Pipe A" at stage tube+type only if entry 1 is of type ЭПК.
C5_AsStated ==
  C5_Scenario(namePipeA, namePipeB) =>
    /\ \E k \in 1..Len(MatchedPairs) :
         /\ MatchedPairs[k][1] = 2
         /\ correct_samples[MatchedPairs[k][2]].original = namePipeB
         /\ MatchedPairs[k][3] = StageTubeOnly
    /\ C5_TypedOnlyIfEPK

\* C5 amended: the tube number of an entry is derived from its name, not
\* from its sequence number.  With the names "Pipe A" and "Pipe B", which
\* hold no number, neither sample is matched and both are reported
\* unmatched; with the list [(1, "Pipe A"), (2, "Pipe B (2)")] sample 2 is
\* matched to "Pipe B (2)" at stage tube-only, and sample 1 is matched at
\* stage tube+type only if its entry is of type ЭПК.
C5_ScenarioByName ==
  /\ C5_Scenario(namePipeA, namePipeB)
       => MatchedPairs = <<>> /\ UnmatchedOut = <<1, 2>>
  /\ C5_Scenario(namePipeA, namePipeB2)
       => /\ \E k \in 1..Len(MatchedPairs) :
               /\ MatchedPairs[k][1] = 2
               /\ correct_samples[MatchedPairs[k][2]].original = namePipeB2
               /\ MatchedPairs[k][3] = StageTubeOnly
          /\ C5_TypedOnlyIfEPK

\* C5 witness: the scenario with "Pipe B (2)" has run and sample 2 carries
\* the name "Pipe B (2)".
C5_Witness ==
  /\ C5_Scenario(namePipeA, namePipeB2)
  /\ \E k \in 1..Len(all_samples) :
       /\ all_samples[k].original_name = lblTr2
       /\ all_samples[k].name = namePipeB2
       /\ all_samples[k].match_stage = StageTubeOnly

\* the keys of the applied mapping whose choice is the name
C6_KeysOf(correct_name) ==
  {k \in 1..Len(applied_matches) : applied_matches[k][2] = correct_name}

\* the sample at position i ended unmatched
C6_Reverted(i) ==
  /\ samples[i].name = samples[i].original_name
  /\ samples[i].correct_number = NoNumber
  /\ ~samples[i].manually_matched
  /\ ~samples[i].automatically_matched

\* the sample at position i carries the name and the number of an entry of
\* that name
C6_Keeps(i, correct_name) ==
  /\ samples[i].name = correct_name
  /\ samples[i].manually_matched
  /\ \E c \in 1..Len(correct_samples) :
       /\ correct_samples[c].original = correct_name
       /\ correct_samples[c].number = samples[i].correct_number

\* C6: when the manual mapping is applied and two labels are mapped to one
\* canonical name, the samples of the label inserted last keep the name and
\* the samples of the other label revert to unmatched: the name is the
\* original label, the number is null, neither manually nor automatically
\* matched.
C6_LastMappingWins ==
  pc = "applied" =>
    \A first, last \in 1..Len(applied_matches) :
      (first < last /\ C6_KeysOf(applied_matches[last][2]) = {first, last})
        => \A i \in 1..Len(samples) :
             /\ samples[i].original_name = applied_matches[last][1]
                  => C6_Keeps(i, applied_matches[last][2])
             /\ samples[i].original_name = applied_matches[first][1]
                  => C6_Reverted(i)

\* C6 witness: two labels were mapped to one name and applied; the sample of
\* the first label had been matched automatically and is now unmatched, the
\* sample of the last label carries the name.
C6_Witness ==
  /\ pc = "applied"
  /\ \E first, last \in 1..Len(applied_matches) : \E i, j \in 1..Len(samples) :
       /\ first < last
       /\ C6_KeysOf(applied_matches[last][2]) = {first, last}
       /\ samples[i].original_name = applied_matches[first][1]
       /\ samples[j].original_name = applied_matches[last][1]
       /\ all_samples[i].automatically_matched
       /\ C6_Reverted(i)
       /\ C6_Keeps(j, applied_matches[last][2])

\* C7: after the manual mapping is applied, a sample whose label is the only
\* one mapped to a canonical name carries that name and its sequence number
\* with stage manual, and a sample for which "Не сопоставлен" was chosen is
\* unmatched (its number is null), also when stage 1 or 2 had matched it.
C7_ManualIsAuthoritative ==
  pc = "applied" =>
    \A i \in 1..Len(samples) :
      /\ \A k \in 1..Len(applied_matches) :
           (/\ applied_matches[k][1] = samples[i].original_name
            /\ C6_KeysOf(applied_matches[k][2]) = {k})
             => /\ samples[i].name = applied_matches[k][2]
                /\ samples[i].correct_number
                     = CorrectDictNumber(correct_samples, applied_matches[k][2])
                /\ samples[i].match_stage = StageManual
      /\ widgets[i] = optNotMatched => samples[i].correct_number = NoNumber

\* the call of check_element_compliance has returned
C8_Checked == pc = "checked"

\* the element has a pair of bounds in the spec
C8_Bounded == InStandard(standard, element) /\ element # "source"

\* C8: the bounds are inclusive.  A value strictly below a present min or
\* strictly above a present max is a deviation; a value from min to max,
\* both included, is normal.
C8_BoundsInclusive ==
  (C8_Checked /\ C8_Bounded) =>
    LET min_val == BoundsOf(standard, element)[1]
        max_val == BoundsOf(standard, element)[2]
    IN /\ (min_val # <<>> /\ value < min_val[1]) => compliance = "deviation"
       /\ (max_val # <<>> /\ value > max_val[1]) => compliance = "deviation"
       /\ (/\ min_val # <<>>
           /\ max_val # <<>>
           /\ min_val[1] <= value
           /\ value <= max_val[1]) => compliance = "normal"

\* C8 witness: a value equal to the max of a proper range was found normal.
C8_Witness ==
  /\ C8_Checked
  /\ C8_Bounded
  /\ BoundsOf(standard, element)[1] # <<>>
  /\ BoundsOf(standard, element)[2] # <<>>
  /\ BoundsOf(standard, element)[1][1] < BoundsOf(standard, element)[2][1]
  /\ value = BoundsOf(standard, element)[2][1]
  /\ compliance = "normal"

\* C9: an element that is not in the spec, or has no bound at all, is normal
\* for every value; an absent min never makes a small value a deviation and
\* an absent max never makes a large value a deviation; the check always
\* returns one of the two statuses.
C9_AbsentIsUnconstrained ==
  C8_Checked =>
    /\ compliance \in {"normal", "deviation"}
    /\ ~InStandard(standard, element) => compliance = "normal"
    /\ C8_Bounded =>
         LET min_val == BoundsOf(standard, element)[1]
             max_val == BoundsOf(standard, element)[2]
         IN /\ (min_val = <<>> /\ max_val = <<>>) => compliance = "normal"
            /\ (min_val = <<>> /\ max_val # <<>> /\ value <= max_val[1])
                 => compliance = "normal"
            /\ (max_val = <<>> /\ min_val # <<>> /\ value >= min_val[1])
                 => compliance = "normal"

\* C9 witness: a value above the min of a spec without max was found normal.
C9_Witness ==
  /\ C8_Checked
  /\ C8_Bounded
  /\ BoundsOf(standard, element)[1] # <<>>
  /\ BoundsOf(standard, element)[2] = <<>>
  /\ value > BoundsOf(standard, element)[1][1]
  /\ compliance = "normal"

\* the samples create_report_tables keeps: those with a canonical number
C10_Matched == {i \in 1..Len(samples) : samples[i].correct_number # NoNumber}

\* C10: create_report_tables returns, and returns tables for exactly the
\* grades of the matched samples that have a spec: a grade without a spec
\* has no table, and the table of every other grade holds all the matched
\* samples of that grade, one row each.
C10_GradeWithoutSpecSkipped ==
  (pc \in {"done", "applied"} /\ C10_Matched # {}) =>
    /\ report_tables.returned = "tables"
    /\ DOMAIN report_tables.tables =
         {samples[i].steel_grade : i \in C10_Matched}
           \cap {standards[k].grade : k \in 1..Len(standards)}
    /\ \A grade \in DOMAIN report_tables.tables :
         LET of_grade == {i \in C10_Matched : samples[i].steel_grade = grade}
             table == report_tables.tables[grade]
         IN /\ Len(table.samples) = Cardinality(of_grade)
            /\ Len(table.data) = Cardinality(of_grade)
            /\ \A i \in of_grade : samples[i] \in Range(table.samples)

\* C10 witness: of two matched samples one declares a grade without a spec;
\* the other grade has its table and the grade without a spec has none.
C10_Witness ==
  /\ pc = "done"
  /\ \E i, j \in C10_Matched :
       /\ ~HasStandard(standards, samples[i].steel_grade)
       /\ samples[i].steel_grade \notin DOMAIN report_tables.tables
       /\ samples[j].steel_grade \in DOMAIN report_tables.tables
       /\ samples[j] \in Range(report_tables.tables[samples[j].steel_grade].samples)

\* the run had no canonical list to reconcile against
C11_NoList == pc = "done" /\ ~InterfaceShown

\* C11 as stated: samples extracted when no canonical list is supplied, or
\* when the list yields no entry, appear in the table of their grade.
C11_SamplesFlowWithoutList ==
  C11_NoList =>
    \A i \in 1..Len(samples) :
      HasStandard(standards, samples[i].steel_grade)
        => /\ report_tables.returned = "tables"
           /\ samples[i].steel_grade \in DOMAIN report_tables.tables
           /\ samples[i] \in Range(report_tables.tables[samples[i].steel_grade].samples)

\* C11 amended: without a canonical list, or with a list that yields no
\* entry, the samples are kept as parsed, none has a canonical number, and
\* create_report_tables returns no table.
C11_NoListNoTables ==
  C11_NoList =>
    /\ samples = protocol_samples
    /\ \A i \in 1..Len(samples) :
         samples[i] = ParsedSample(samples[i].name, samples[i].steel_grade,
                                   samples[i].composition)
    /\ report_tables = NoTables

\* C11 witness: a run without a list ended with a sample whose grade has a
\* spec, and without tables.
C11_Witness ==
  /\ C11_NoList
  /\ ~correct_names_file.uploaded
  /\ \E i \in 1..Len(samples) : HasStandard(standards, samples[i].steel_grade)
  /\ report_tables.returned = "None"

\* C12: the step that applies the manual mapping leaves the list of
\* automatically reconciled samples and every sample in it as it was (name,
\* canonical number, automatic-match flag, stage); the result is a new list.
C12_ApplyLeavesAutomaticResult ==
  [][pc' = "applied" => all_samples' = all_samples]_vars

\* C12 witness: the mapping was applied, the result differs from the
\* automatic one in a sample that was matched automatically and is now
\* matched manually under another name, and the automatic one still says
\* what the matching said.
C12_Witness ==
  /\ pc = "applied"
  /\ \E i \in 1..Len(samples) :
       /\ all_samples[i].automatically_matched
       /\ all_samples[i].match_stage \in {StageTubeAndType, StageTubeOnly}
       /\ samples[i].manually_matched
       /\ samples[i].name # all_samples[i].name

\* C13: after match_sample_names every sample that was passed in, matched or
\* not, has the fields and values it had as parsed, and every canonical
\* entry is as the list was parsed.
C13_SourcesUnchanged ==
  pc \notin {"start", "parsed"} =>
    /\ \A i \in 1..Len(protocol_samples) :
         protocol_samples[i] = ParsedSample(protocol_samples[i].name,
                                            protocol_samples[i].steel_grade,
                                            protocol_samples[i].composition)
    /\ correct_samples = IF correct_names_file.uploaded
                         THEN parse_correct_names(correct_names_file) ELSE <<>>

(***************************************************************************)
(* Properties of the extraction from a protocol document.                  *)
(***************************************************************************)
\* the sample names after the markers of a document, in document order
MarkerNames(doc) ==
  LET markers == SelectSeq(doc.paragraphs, LAMBDA p : p.marker = "name")
  IN [i \in 1..Len(markers) |-> Strip(markers[i].rest)]

\* python-docx raises while the document is opened, a paragraph is read or
\* the tables are listed
Faulted(doc) ==
  \/ ~doc.opens
  \/ \E i \in 1..Len(doc.paragraphs) : ~doc.paragraphs[i].readable
  \/ ~doc.lists_tables

\* the cells of the value rows under the headers that name element e
CellsOf(table, e) ==
  {<<h, i>> \in {1, 8} \X (1..MaxOf({Len(table.rows[1]), Len(table.rows[8])})) :
     i <= Len(table.rows[h]) /\ table.rows[h][i] = e}

\* the cell under header <<h, i>> is there and is a number
CellParses(table, hi) ==
  /\ hi[2] <= Len(table.rows[hi[1] + 5])
  /\ ParseFloat(NormalisedCell(Strip(table.rows[hi[1] + 5][hi[2]]))) # <<>>

\* table i of the document is readable, has its 13 rows, and has a column
\* of element e whose cell is there and is not a number
HasUnparsedCell(doc, i, e) ==
  /\ i <= Len(doc.tables)
  /\ doc.tables[i].readable
  /\ Len(doc.tables[i].rows) >= 13
  /\ \E hi \in CellsOf(doc.tables[i], e) :
       /\ hi[2] <= Len(doc.tables[i].rows[hi[1] + 5])
       /\ ~CellParses(doc.tables[i], hi)

\* C14: when python-docx raises while the document is opened, a paragraph is
\* read or the tables are listed, parse_protocol_file returns the empty
\* list, whatever samples it had collected; a table that has fewer than 13
\* rows or cannot be read gives its sample the empty composition and the
\* samples are returned.
C14_FaultGivesEmptyList ==
  pc = "extracted" =>
    /\ Faulted(protocol_content) => protocol_result = <<>>
    /\ ~Faulted(protocol_content) =>
         /\ Len(protocol_result) = Len(MarkerNames(protocol_content))
         /\ \A i \in 1..Len(protocol_result) :
              (/\ i <= Len(protocol_content.tables)
               /\ \/ ~protocol_content.tables[i].readable
                  \/ Len(protocol_content.tables[i].rows) < 13)
              => protocol_result[i].composition = <<>>

\* a sample name was read before the paragraph that raises
C14_Witness ==
  /\ pc = "extracted"
  /\ Len(protocol_content.paragraphs) >= 2
  /\ protocol_content.paragraphs[1].marker = "name"
  /\ ~protocol_content.paragraphs[2].readable
  /\ protocol_result = <<>>

\* C15 as stated: the sample holds 0 for an element whose cell is not a
\* number.
C15_UnparsedIsZero ==
  (pc = "extracted" /\ ~Faulted(protocol_content)) =>
    \A i \in 1..Len(protocol_result) : \A e \in all_elements :
      HasUnparsedCell(protocol_content, i, e) =>
        /\ e \in DOMAIN protocol_result[i].composition
        /\ protocol_result[i].composition[e] = 0

\* C15: a cell that is not a number stores nothing: the sample holds no
\* value for an element unless one of the element's cells is a number, and
\* the samples are returned.
C15_UnparsedIsLeftOut ==
  (pc = "extracted" /\ ~Faulted(protocol_content)) =>
    \A i \in 1..Len(protocol_result) : \A e \in all_elements :
      HasUnparsedCell(protocol_content, i, e) =>
        (e \in DOMAIN protocol_result[i].composition
           <=> \E hi \in CellsOf(protocol_content.tables[i], e) :
                 CellParses(protocol_content.tables[i], hi))

\* silicon is "<0,2" in the table of the first sample, carbon is a number
C15_Witness ==
  /\ pc = "extracted"
  /\ protocol_result # <<>>
  /\ HasUnparsedCell(protocol_content, 1, "Si")
  /\ DOMAIN protocol_result[1].composition = {"C", "Mn"}

\* C16: the samples are the marker paragraphs in document order; sample i
\* holds the composition of table i when the document has a table i, the
\* empty composition otherwise; the tables after the last sample change
\* nothing.
C16_NthTableNthMarker ==
  (pc = "extracted" /\ ~Faulted(protocol_content)) =>
    /\ Len(protocol_result) = Len(MarkerNames(protocol_content))
    /\ \A i \in 1..Len(protocol_result) :
         /\ protocol_result[i].name = MarkerNames(protocol_content)[i]
         /\ protocol_result[i].composition =
              IF i <= Len(protocol_content.tables)
              THEN parse_composition_table(protocol_content.tables[i])
              ELSE <<>>

\* two samples and two tables with different compositions, the second one
\* empty
C16_Witness ==
  /\ pc = "extracted"
  /\ Len(protocol_result) = 2
  /\ Len(protocol_content.tables) = 2
  /\ protocol_result[1].name # protocol_result[2].name
  /\ protocol_result[1].composition # <<>>
  /\ protocol_result[2].composition = <<>>

(***************************************************************************)
(* Properties of the reading of the reference document.                    *)
(***************************************************************************)
\* the text is a decimal integer
IsInteger(s) == s # <<>> /\ \A i \in 1..Len(s) : IsDigit(s[i])

\* a table row of at least two cells, an integer then a name
ShapedRow(row) ==
  Len(row) >= 2 /\ IsInteger(Strip(row[1])) /\ Strip(row[2]) # <<>>

\* the <integer, name> pairs the list is to be read from: the shaped table
\* rows, the shaped paragraphs when there is no shaped table row
ShapedPairs(doc) ==
  IF SelectSeq(AllRows(doc.tables), ShapedRow) # <<>>
  THEN [i \in 1..Len(SelectSeq(AllRows(doc.tables), ShapedRow)) |->
          <<IntOf(Strip(SelectSeq(AllRows(doc.tables), ShapedRow)[i][1])),
            Strip(SelectSeq(AllRows(doc.tables), ShapedRow)[i][2])>>]
  ELSE [i \in 1..Len(SelectSeq(doc.paragraphs, ParagraphTaken)) |->
          <<ParagraphRow(SelectSeq(doc.paragraphs, ParagraphTaken)[i]).number,
            ParagraphRow(SelectSeq(doc.paragraphs, ParagraphTaken)[i]).name>>]

\* C17 as stated: the list holds one entry for each shaped table row, or,
\* when no table row is shaped, for each shaped paragraph, and nothing else;
\* it is in ascending order of the numbers.
C17_ListFromRowsElseParagraphs ==
  (pc = "listed" /\ names_content.opens) =>
    /\ Len(names_result) = Len(ShapedPairs(names_content))
    /\ \A p \in Range(ShapedPairs(names_content)) :
         Cardinality({i \in 1..Len(names_result) :
                        <<names_result[i].number, names_result[i].original>> = p})
           = Cardinality({i \in 1..Len(ShapedPairs(names_content)) :
                            ShapedPairs(names_content)[i] = p})
    /\ \A i \in 1..Len(names_result) : \A j \in i..Len(names_result) :
         names_result[i].number <= names_result[j].number

\* C17 for the documents without a superscript digit in a number cell
C17_WithoutSuperscript ==
  (\A i \in 1..Len(AllRows(names_content.tables)) :
     AllRows(names_content.tables)[i][1] # <<"sup1">>)
  => C17_ListFromRowsElseParagraphs

(***************************************************************************)
(* Properties of the overlay file.                                         *)
(***************************************************************************)
\* the five built-in grades
BuiltinGrades == {BuiltinStandards[i].grade : i \in 1..Len(BuiltinStandards)}

\* the specs of the grades that are not built in, in order
UserDefined(stds) == SelectSeq(stds, LAMBDA s : s.grade \notin BuiltinGrades)

\* the file holds the user-defined grades of the standards in memory, each
\* with its spec, and no built-in grade
OverlayWritten ==
  /\ user_standards_json.exists
  /\ \A i \in 1..Len(user_standards_json.text) :
       user_standards_json.text[i].key \notin BuiltinGrades
  /\ Len(user_standards_json.text) = Len(UserDefined(standards))
  /\ \A i \in 1..Len(user_standards_json.text) :
       /\ user_standards_json.text[i].key = UserDefined(standards)[i].grade
       /\ json_load(user_standards_json.text)[i] = UserDefined(standards)[i]

\* C18: after save_user_standards the file holds exactly the grades of the
\* standards that are not built in, each with its spec; a load_standards
\* that follows gives the built-in specs followed by the user-defined
\* grades, each with the spec it had before the save.
C18_SaveThenLoad ==
  [][/\ pc' = "saved" => OverlayWritten'
     /\ (pc = "saved" /\ pc' = "loaded") =>
          /\ standards' = BuiltinStandards \o UserDefined(standards)
          /\ \A i \in 1..Len(standards) :
               standards[i].grade \notin BuiltinGrades =>
                 /\ HasStandard(standards', standards[i].grade)
                 /\ StandardOf(standards', standards[i].grade) = standards[i]]_vars

\* saved with the user-defined grade "X1" and with other bounds for the
\* built-in grade "20" in memory: the file holds "X1" only
C18_Witness ==
  /\ pc = "saved"
  /\ HasStandard(standards, "X1")
  /\ StandardOf(standards, "20").source = "mine"
  /\ Len(user_standards_json.text) = 1
  /\ user_standards_json.text[1].key = "X1"

(***************************************************************************)
(* Properties of the report tables.                                        *)
(***************************************************************************)
\* C19: the rows of a grade's table are samples of that grade that hold a
\* canonical number, in ascending order of the number, and row i has the
\* number i and the name of sample i; a sample without a canonical number
\* is in no table.
C19_TablesNumberedInOrder ==
  pc = "done" =>
    /\ \A grade \in DOMAIN report_tables.tables :
         /\ Len(report_tables.tables[grade].data) = Len(report_tables.tables[grade].samples)
         /\ \A i \in 1..Len(report_tables.tables[grade].data) :
              /\ report_tables.tables[grade].data[i].No = i
              /\ report_tables.tables[grade].data[i].name =
                   report_tables.tables[grade].samples[i].name
              /\ report_tables.tables[grade].samples[i] \in Range(samples)
              /\ report_tables.tables[grade].samples[i].steel_grade = grade
              /\ report_tables.tables[grade].samples[i].correct_number # NoNumber
              /\ \A j \in i..Len(report_tables.tables[grade].data) :
                   report_tables.tables[grade].samples[i].correct_number
                     <= report_tables.tables[grade].samples[j].correct_number
    /\ \A k \in 1..Len(samples) :
         samples[k].correct_number = NoNumber =>
           \A grade \in DOMAIN report_tables.tables :
             \A i \in 1..Len(report_tables.tables[grade].data) :
               report_tables.tables[grade].data[i].name # samples[k].name

\* two samples of grade 20 in the table, the second of the protocols first
C19_Witness ==
  /\ pc = "done"
  /\ Len(samples) = 2
  /\ samples[1].correct_number = 2
  /\ samples[2].correct_number = 1
  /\ "20" \in DOMAIN report_tables.tables
  /\ Len(report_tables.tables["20"].data) = 2
  /\ report_tables.tables["20"].data[1].name = samples[2].name

(***************************************************************************)
(* Properties of the yield-strength threshold.                             *)
(***************************************************************************)
\* twice the distance between threshold and the line through the
\* breakpoints a and b at temp, in units of 1 / (b[1] - a[1])
TwiceOffLine(a, b, temp, threshold) ==
  IF threshold * (b[1] - a[1]) >= a[2] * (b[1] - a[1]) + (b[2] - a[2]) * (temp - a[1])
  THEN 2 * (threshold * (b[1] - a[1])
            - (a[2] * (b[1] - a[1]) + (b[2] - a[2]) * (temp - a[1])))
  ELSE 2 * ((a[2] * (b[1] - a[1]) + (b[2] - a[2]) * (temp - a[1]))
            - threshold * (b[1] - a[1]))

\* C20: at a breakpoint's temperature the threshold is the breakpoint's
\* value; between two breakpoints it is an integer nearest to the linear
\* interpolation; above the last breakpoint it is the last value; with the
\* breakpoints (250,196), (400,137), (450,127) it is 196 at 250, 166 at 325
\* and 127 at 500; the status is normal exactly when the value is at least
\* the threshold.
C20_InterpolatedThreshold ==
  pc = "evaluated" =>
    /\ \A i \in 1..Len(yield_norm.breakpoints) :
         /\ temperature = yield_norm.breakpoints[i][1]
              => yield_threshold = yield_norm.breakpoints[i][2]
         /\ (/\ i < Len(yield_norm.breakpoints)
             /\ yield_norm.breakpoints[i][1] < temperature
             /\ temperature < yield_norm.breakpoints[i + 1][1])
              => TwiceOffLine(yield_norm.breakpoints[i], yield_norm.breakpoints[i + 1],
                              temperature, yield_threshold)
                   <= yield_norm.breakpoints[i + 1][1] - yield_norm.breakpoints[i][1]
    /\ temperature > yield_norm.breakpoints[Len(yield_norm.breakpoints)][1]
         => yield_threshold = yield_norm.breakpoints[Len(yield_norm.breakpoints)][2]
    /\ yield_norm.breakpoints = << <<250, 196>>, <<400, 137>>, <<450, 127>> >>
         => /\ temperature = 250 => yield_threshold = 196
            /\ temperature = 325 => yield_threshold = 166
            /\ temperature = 500 => yield_threshold = 127
    /\ yield_status = "normal" <=> yield_value >= yield_threshold
    /\ yield_status \in {"normal", "deviation"}

\* 325 C lies half way between 166 and 167 on the line from (250,196) to
\* (400,137); a yield strength of 166 is normal
C20_Witness ==
  /\ pc = "evaluated"
  /\ yield_norm.breakpoints = << <<250, 196>>, <<400, 137>>, <<450, 127>> >>
  /\ temperature = 325
  /\ yield_threshold = 166
  /\ yield_value = 166
  /\ yield_status = "normal"

(***************************************************************************)
(* Properties of the derivation of a protocol label.                       *)
(***************************************************************************)
\* the pairs <<i, k>> such that the literal lit stands at i and, after
\* white space with at most one № when withNo, digits start at k
ExplicitCaptures(s, lit, withNo) ==
  {ik \in (1..Len(s)) \X (1..Len(s)) :
     /\ HasPrefixAt(s, ik[1], lit)
     /\ ik[2] >= ik[1] + Len(lit)
     /\ IsDigit(s[ik[2]])
     /\ \A j \in (ik[1] + Len(lit))..(ik[2] - 1) :
          IsSpace(s[j]) \/ (withNo /\ s[j] = "No")
     /\ Cardinality({j \in (ik[1] + Len(lit))..(ik[2] - 1) : s[j] = "No"}) <= 1}

\* the digits captured by the leftmost of these matches
LeftmostCapture(s, lit, withNo) ==
  DigitRun(s, (CHOOSE ik \in ExplicitCaptures(s, lit, withNo) :
                 \A other \in ExplicitCaptures(s, lit, withNo) : ik[1] <= other[1])[2])

\* the positions k of the digits of the matches of "(" digits ")"
ParenCaptures(s) ==
  {k \in 2..Len(s) :
     /\ s[k - 1] = "("
     /\ IsDigit(s[k])
     /\ k + Len(DigitRun(s, k)) <= Len(s)
     /\ s[k + Len(DigitRun(s, k))] = ")"}

\* the integers of the label that stand on their own: runs of digits with
\* no letter, digit or underscore next to them
BareIntegers(s) ==
  {DigitRun(s, k) : k \in {k \in 1..Len(s) :
     /\ IsDigit(s[k])
     /\ (k = 1 \/ ~IsWord(s[k - 1]))
     /\ (k + Len(DigitRun(s, k)) > Len(s) \/ ~IsWord(s[k + Len(DigitRun(s, k))]))}}

\* the explicit forms in their order of precedence that match the label
FormsMatching(s) ==
  {n \in 1..Len(TubePatterns) :
     ExplicitCaptures(s, TubePatterns[n].lit, TubePatterns[n].withNo) # {}}

\* C21: the tube number of a label is the number captured by the first, in
\* the order of the list, of the forms "тр." / "тр" / "труба" (with white
\* space and, after "тр.", an optional №) that matches anywhere in the
\* label; if none matches, the digits of the first "(digits)"; if there is
\* none either, a bare integer of the label of the greatest value; and
\* None when the label holds no bare integer.
C21_TubePrecedence ==
  pc = "named" =>
    IF FormsMatching(sample_label) # {}
    THEN label_info.tube_number =
           LeftmostCapture(sample_label, TubePatterns[MinOf(FormsMatching(sample_label))].lit,
                           TubePatterns[MinOf(FormsMatching(sample_label))].withNo)
    ELSE IF ParenCaptures(sample_label) # {}
    THEN label_info.tube_number = DigitRun(sample_label, MinOf(ParenCaptures(sample_label)))
    ELSE IF BareIntegers(sample_label) # {}
    THEN /\ label_info.tube_number \in BareIntegers(sample_label)
         /\ \A r \in BareIntegers(sample_label) :
              IntOf(r) <= IntOf(label_info.tube_number)
    ELSE label_info.tube_number = NoText

\* "тр.5(7)": the form "тр." gives 5 although 7 is the greatest integer
C21_Witness ==
  /\ pc = "named"
  /\ sample_label = <<"cyt", "cyr", ".", "5", "(", "7", ")">>
  /\ label_info.tube_number = <<"5">>

\* the label with НД-II written НД-2 and НД-I written НД-1
ArabicSuffix(s) ==
  Replace(Replace(s, txtND \o <<"I", "I">>, txtND \o <<"2">>),
          txtND \o <<"I">>, txtND \o <<"1">>)

\* C22 as stated: the surface type of a label is the surface type of the
\* label with its suffixes НД-I, НД-II written НД-1, НД-2; a label with
\* "КПП НД-II" has the type КПП НД-2, a label with "КПП НД-I" (and not
\* "КПП НД-II") the type КПП НД-1.
C22_RomanAsArabic ==
  pc = "named" =>
    /\ label_info.surface_type = extract_surface_type(ArabicSuffix(sample_label))
    /\ Contains(sample_label, txtKPP_ND \o <<"I", "I">>)
         => label_info.surface_type = "KPP_ND_2"
    /\ (/\ Contains(sample_label, txtKPP_ND \o <<"I">>)
        /\ ~Contains(sample_label, txtKPP_ND \o <<"I", "I">>))
         => label_info.surface_type = "KPP_ND_1"

(***************************************************************************)
(* Properties of the runs after the manual matching was applied.           *)
(***************************************************************************)
\* C23 as stated: the Word report made by pressing the report button on the
\* page that shows the applied manual matching is made from samples that
\* carry the names and numbers of that page.
C23_ReportCarriesOverrides ==
  [][(pc = "applied" /\ pc' = "reported") =>
       /\ Len(samples') = Len(samples)
       /\ \A i \in DOMAIN samples :
            /\ samples'[i].name = samples[i].name
            /\ samples'[i].correct_number = samples[i].correct_number]_vars

\* the sample at position i of the result carries a canonical name
C24_Carries(i) ==
  /\ samples[i].correct_number # NoNumber
  /\ samples[i].name \in Range(correct_names_list(correct_samples))

\* C24 as stated: after the manual mapping is applied no two samples of the
\* result carry the same canonical name.
C24_NameCarriedOnce ==
  pc = "applied" =>
    \A i, j \in 1..Len(samples) :
      (i # j /\ C24_Carries(i) /\ C24_Carries(j))
        => samples[i].name # samples[j].name

(***************************************************************************)
(* Maximality of the reconciliation.                                       *)
(***************************************************************************)
\* the entries of the canonical list that are in no pair of the matched output
C25_Unpaired ==
  {c \in 1..Len(correct_samples) :
     \A k \in 1..Len(MatchedPairs) : MatchedPairs[k][2] # c}

\* C25 as stated: when match_samples has returned, no sample of the
\* unmatched output and entry that is in no pair have the same non-null
\* tube number, whatever the name texts of the entries.
C25_GreedyIsMaximal ==
  MatchRan =>
    \A k \in 1..Len(UnmatchedOut) : \A c \in C25_Unpaired :
      LET info == ProtocolInfo(protocol_samples[UnmatchedOut[k]].original_name)
      IN (info.tube_number # NoText /\ correct_samples[c].tube_number # NoText)
           => info.tube_number # correct_samples[c].tube_number

====
